---- MODULE Spec2Model ----
(***************************************************************************)
(* Levelapp: workflow orchestrator (level_core/evaluators/orchestrator.py, *)
(* verifier.py), conversation simulator (level_core/simluators/service.py)  *)
(* evaluation service (level_core/evaluators/service.py and the            *)
(* level-core/evaluators package) and RAG simulator                        *)
(* (level_core/simluators/rag_simulator.py, rag_routes.py).                *)
(***************************************************************************)
EXTENDS Integers, Sequences, FiniteSets, TLC

(***************************************************************************)
(* Bounds of the model.                                                    *)
(***************************************************************************)
\* prepare_workflow calls issued on one OrchestratorService instance
MaxCalls == 3
\* last value of the clock
MaxTime == 2
\* clock ticks per minute; calls in one tick are less than a second apart
MinuteTicks == 1
\* value of ORCH_RATE_LIMIT_PER_MIN the instance was constructed with
RateLimitPerMin == 2

VARIABLES
    now,                  \* datetime.now(), in ticks
    sessions,             \* OrchestratorService.sessions, in insertion order
    rate_limiter,         \* OrchestratorService.rate_limiter
    session_ttl_minutes,  \* OrchestratorService.session_ttl_minutes
    cleanup_enabled,      \* whether __init__ found a running event loop
    next_sweep,           \* when the sweeper's sleep ends
    next_session_id,      \* stands for uuid4(): never repeats
    calls                 \* every prepare_workflow call: input, position, response

orchVars == <<now, sessions, rate_limiter, session_ttl_minutes, cleanup_enabled,
              next_sweep, next_session_id, calls>>

VARIABLES
    configs,              \* EvaluationService.configs: the configured providers
    evaluator_classes,    \* EvaluationService.evaluator_classes (level-core)
    eval_log              \* every evaluate_response call: input and outcome

evalVars == <<configs, evaluator_classes, eval_log>>

VARIABLES
    batch,                \* ScenarioBatch.scenarios
    attempts,             \* the attempts argument of run_batch_test
    tasks,                \* one simulate_single_scenario coroutine per scenario
    semaphore,            \* free slots of the asyncio.Semaphore
    run,                  \* position and result of simulate_conversation
    finish_order,         \* scenario indices in the order their tasks ended
    collected_scores      \* ConversationSimulator.collected_scores

simVars == <<batch, attempts, tasks, semaphore, run, finish_order, collected_scores>>

\* the HTTP binding: how many requests got their OrchestratorService injected
\* and the status codes of the responses sent, in request order
VARIABLES
    route

httpVars == <<route>>

\* BaseEvaluator._parse_json_output: the text a judge's API sent and what the
\* parser made of it
VARIABLES
    llm_output,
    parsed

parseVars == <<llm_output, parsed>>

VARIABLES
    rag_page,             \* the page at page_url and the chunk_size asked for
    rag_sessions,         \* _GLOBAL_SESSIONS, the store of the RAGSimulator
    rag_next_id,          \* stands for uuid4(): never repeats
    rag_calls             \* every call on the RAGSimulator: input, position, outcome

ragVars == <<rag_page, rag_sessions, rag_next_id, rag_calls>>

vars == <<orchVars, evalVars, simVars, httpVars, parseVars, ragVars>>

(***************************************************************************)
(* Inputs of prepare_workflow.                                             *)
(***************************************************************************)
Projects == {"P", "Q"}

\* A seed is what the caller passes: a dict (its items in insertion order), or
\* something that is no mapping: a list (JSON-serialisable) or a set (not).
SeedAB == [kind |-> "dict", items |-> << <<"endpoint", "http://x">>, <<"k", "v">> >>]
SeedBA == [kind |-> "dict", items |-> << <<"k", "v">>, <<"endpoint", "http://x">> >>]
SeedK == [kind |-> "dict", items |-> << <<"k", "v">> >>]
SeedSrc == [kind |-> "dict", items |-> << <<"source_url", "http://s">> >>]
SeedList == [kind |-> "list", items |-> <<>>]
SeedSet == [kind |-> "set", items |-> <<>>]

\* (project_id, workflow_type, seed) triples the calls are drawn from
Inputs ==
    { <<"P", "generation", SeedAB>>, <<"P", "generation", SeedBA>>,
      <<"P", "extraction", SeedK>>, <<"P", "quantum", SeedK>>,
      <<"P", "generation", SeedList>>, <<"P", "generation", SeedSet>>,
      <<"Q", "generation", SeedK>> }

\* Python's order of the keys used (str comparison)
KeyRank(k) ==
    CASE k = "endpoint" -> 1
      [] k = "k" -> 2
      [] k = "source_url" -> 3
      [] OTHER -> 4

RECURSIVE InsertSorted(_, _)
InsertSorted(item, s) ==
    IF s = <<>> THEN <<item>>
    ELSE IF KeyRank(item[1]) <= KeyRank(Head(s)[1]) THEN <<item>> \o s
    ELSE <<Head(s)>> \o InsertSorted(item, Tail(s))

RECURSIVE SortKeys(_)
SortKeys(items) ==
    IF items = <<>> THEN <<>> ELSE InsertSorted(Head(items), SortKeys(Tail(items)))

\* json.dumps(seed, sort_keys=True): TypeError on a set
JsonDumps(seed) ==
    IF seed.kind = "set" THEN [raised |-> TRUE, text |-> seed]
    ELSE IF seed.kind = "dict"
         THEN [raised |-> FALSE, text |-> [kind |-> "dict", items |-> SortKeys(seed.items)]]
         ELSE [raised |-> FALSE, text |-> seed]

\* _generate_seed_hash: sha256 of the sorted-key encoding; the digest prefix
\* is taken to be collision-free on the seeds used, so the encoding stands for it
GenerateSeedHash(seed) == JsonDumps(seed)

\* seed.get(key) on a dict seed; "None" when absent
RECURSIVE Lookup(_, _)
Lookup(items, key) ==
    IF items = <<>> THEN "None"
    ELSE IF Head(items)[1] = key THEN Head(items)[2]
    ELSE Lookup(Tail(items), key)

SeedGet(seed, key) == Lookup(seed.items, key)

(***************************************************************************)
(* Rate limiter.                                                           *)
(***************************************************************************)
max_requests_per_minute == RateLimitPerMin

\* a cleaning step that forgets every timestamp
CleanAll(bucket, t) == <<>>

\* the bucket after "Clean old requests"
CleanOld(bucket, t) == SelectSeq(bucket, LAMBDA ts : ts > t - MinuteTicks)

\* the limit test with > in place of >=
CheckRateLimitOffByOne(project_id) ==
    LET cleaned == CleanOld(rate_limiter[project_id], now)
    IN IF Len(cleaned) > max_requests_per_minute
       THEN [ok |-> FALSE, bucket |-> cleaned]
       ELSE [ok |-> TRUE, bucket |-> Append(cleaned, now)]

\* the limit test counting the requests of every project in one window
CheckRateLimitShared(project_id) ==
    LET cleaned == CleanOld(rate_limiter[project_id], now)
        others == {q \in Projects : q # project_id /\ CleanOld(rate_limiter[q], now) # <<>>}
    IN IF Len(cleaned) + Cardinality(others) >= max_requests_per_minute
       THEN [ok |-> FALSE, bucket |-> cleaned]
       ELSE [ok |-> TRUE, bucket |-> Append(cleaned, now)]

\* the limiter recording the rejected request as well
CheckRateLimitCountsRejected(project_id) ==
    LET cleaned == CleanOld(rate_limiter[project_id], now)
    IN IF Len(cleaned) >= max_requests_per_minute
       THEN [ok |-> FALSE, bucket |-> Append(cleaned, now)]
       ELSE [ok |-> TRUE, bucket |-> Append(cleaned, now)]

\* _check_rate_limit: the result and the project's bucket afterwards
CheckRateLimit(project_id) ==
    LET cleaned == CleanOld(rate_limiter[project_id], now)
    IN IF Len(cleaned) >= max_requests_per_minute
       THEN [ok |-> FALSE, bucket |-> cleaned]
       ELSE [ok |-> TRUE, bucket |-> Append(cleaned, now)]

(***************************************************************************)
(* Sessions and tokens.                                                    *)
(***************************************************************************)
NoSession ==
    [session_id |-> 0, project_id |-> "", workflow_type |-> "",
     seed_hash |-> [kind |-> "none", items |-> <<>>], context |-> "None",
     status |-> "", created_at |-> 0, expires_at |-> 0]

\* the lookup's test without the comparison of expires_at with the clock
SessionMatchesIgnoringExpiry(s, project_id, workflow_type, seed_hash) ==
    /\ s.project_id = project_id
    /\ s.workflow_type = workflow_type
    /\ s.seed_hash = seed_hash

SessionMatches(s, project_id, workflow_type, seed_hash) ==
    /\ s.project_id = project_id
    /\ s.workflow_type = workflow_type
    /\ s.seed_hash = seed_hash
    /\ s.expires_at > now

\* _find_existing_session: the first match in the store's order, else None
FindExistingSession(project_id, workflow_type, seed_hash) ==
    LET hits == SelectSeq(sessions,
                    LAMBDA s : SessionMatches(s, project_id, workflow_type, seed_hash))
    IN IF hits = <<>> THEN NoSession ELSE Head(hits)

NoToken == [session_id |-> 0, project_id |-> "", workflow_type |-> "", exp |-> 0, nbf |-> 0]
NoPath == [prefix |-> "", project_id |-> "", page |-> "", session_id |-> 0]

\* _generate_launch_token: the signed payload; HS256 over a fixed secret is a
\* function of the payload, so the payload stands for the token string
GenerateLaunchToken(session_id, project_id, workflow_type) ==
    [session_id |-> session_id, project_id |-> project_id,
     workflow_type |-> workflow_type, exp |-> now + 5 * MinuteTicks, nbf |-> now]

\* _initialize_workflow: the session it stores
InitializeWorkflow(project_id, workflow_type, seed, seed_hash) ==
    [session_id |-> next_session_id, project_id |-> project_id,
     workflow_type |-> workflow_type, seed_hash |-> seed_hash,
     context |-> IF workflow_type = "generation" THEN SeedGet(seed, "endpoint")
                 ELSE IF workflow_type = "rag" THEN SeedGet(seed, "source_url")
                 ELSE SeedGet(seed, "schema_id"),
     status |-> "ready", created_at |-> now,
     expires_at |-> now + session_ttl_minutes * MinuteTicks]

(***************************************************************************)
(* Verifier.                                                               *)
(***************************************************************************)
\* what the verifier's environment answers: provider keys in the environment,
\* the HEAD probe (a status or "exc"), the RAG imports
ProbeResults == {"200", "302", "500", "exc"}
VerifierEnvs == [has_keys : BOOLEAN, probe : ProbeResults, rag_deps : BOOLEAN]

\* _check_project_permission
CheckProjectPermission(project_id) == TRUE

\* what one check adds to checks, codes and reasons
Passed(name) ==
    [checks |-> << [name |-> name, status |-> "ok"] >>, codes |-> <<>>,
     reasons |-> <<>>]
Failed(name, code, reason) ==
    [checks |-> << [name |-> name, status |-> "fail"] >>, codes |-> <<code>>,
     reasons |-> <<reason>>]
NotRun == [checks |-> <<>>, codes |-> <<>>, reasons |-> <<>>]

\* the VerificationResult built from the checks run, in their order
RECURSIVE Accumulated(_)
Accumulated(parts) ==
    IF parts = <<>> THEN NotRun
    ELSE LET rest == Accumulated(Tail(parts))
         IN  [checks |-> Head(parts).checks \o rest.checks,
              codes |-> Head(parts).codes \o rest.codes,
              reasons |-> Head(parts).reasons \o rest.reasons]

VerificationResult(parts) ==
    LET acc == Accumulated(parts)
    IN  [raised |-> FALSE, ready |-> Len(acc.codes) = 0, checks |-> acc.checks,
         codes |-> acc.codes, reasons |-> acc.reasons]

\* an exception leaves the verifier: seed.get on what is no mapping
VerifierRaised ==
    [raised |-> TRUE, ready |-> FALSE, checks |-> <<>>, codes |-> <<>>,
     reasons |-> <<>>]

\* the api_key check of _verify_generation
ApiKeyCheck(env) ==
    IF ~env.has_keys
    THEN Failed("api_key", "CONFIG_MISSING", "API keys not configured")
    ELSE Passed("api_key")

\* the endpoint check of _verify_generation, run when the seed has one
EndpointCheck(seed, env) ==
    IF SeedGet(seed, "endpoint") = "None" THEN NotRun
    ELSE IF env.probe = "exc"
    THEN Failed("endpoint", "CONNECTIVITY_ERROR", "Cannot reach endpoint")
    ELSE IF env.probe = "500"
    THEN Failed("endpoint", "CONNECTIVITY_ERROR", "Endpoint health check failed")
    ELSE Passed("endpoint")

\* the permissions check of _verify_generation
PermissionsCheck(project_id) ==
    IF ~CheckProjectPermission(project_id)
    THEN Failed("permissions", "PERMISSION_DENIED", "Insufficient project permissions")
    ELSE Passed("permissions")

\* a generation verifier that returns at the first failed check
VerifyGenerationShortCircuit(project_id, seed, env) ==
    IF seed.kind # "dict" THEN VerifierRaised
    ELSE IF ~env.has_keys THEN VerificationResult(<<ApiKeyCheck(env)>>)
    ELSE IF EndpointCheck(seed, env).codes # <<>>
    THEN VerificationResult(<<ApiKeyCheck(env), EndpointCheck(seed, env)>>)
    ELSE VerificationResult(<<ApiKeyCheck(env), EndpointCheck(seed, env),
                              PermissionsCheck(project_id)>>)

\* _verify_generation
VerifyGeneration(project_id, seed, env) ==
    IF seed.kind # "dict" THEN VerifierRaised
    ELSE VerificationResult(<<ApiKeyCheck(env), EndpointCheck(seed, env),
                              PermissionsCheck(project_id)>>)

\* the source_url check of _verify_rag, run when the seed has one
SourceUrlCheck(seed, env) ==
    IF SeedGet(seed, "source_url") = "None" THEN NotRun
    ELSE IF env.probe = "exc"
    THEN Failed("source_url", "CONNECTIVITY_ERROR", "Cannot reach source URL")
    ELSE IF env.probe # "200"
    THEN Failed("source_url", "RESOURCE_UNAVAILABLE", "Source URL not accessible")
    ELSE Passed("source_url")

\* the rag_service check of _verify_rag
RagServiceCheck(env) ==
    IF ~env.rag_deps
    THEN Failed("rag_service", "RESOURCE_UNAVAILABLE",
                "RAG evaluation service not ready")
    ELSE Passed("rag_service")

\* _verify_rag
VerifyRag(project_id, seed, env) ==
    IF seed.kind # "dict" THEN VerifierRaised
    ELSE VerificationResult(<<SourceUrlCheck(seed, env), RagServiceCheck(env)>>)

\* _verify_extraction
VerifyExtraction(project_id, seed, env) ==
    VerificationResult(<<Failed("extraction", "RESOURCE_UNAVAILABLE",
                                "Document extraction workflow not implemented")>>)

\* a dispatch whose last branch answers like the extraction verifier
VerifyWorkflowFallThrough(project_id, workflow_type, seed, env) ==
    IF workflow_type = "generation" THEN VerifyGeneration(project_id, seed, env)
    ELSE IF workflow_type = "rag" THEN VerifyRag(project_id, seed, env)
    ELSE VerifyExtraction(project_id, seed, env)

\* verify_workflow after the authorization gate answered permitted
VerifyWorkflowGiven(permitted, project_id, workflow_type, seed, env) ==
    IF ~permitted
    THEN VerificationResult(<<Failed("authorization", "PERMISSION_DENIED",
                                     "User lacks access to project")>>)
    ELSE IF workflow_type = "generation" THEN VerifyGeneration(project_id, seed, env)
    ELSE IF workflow_type = "rag" THEN VerifyRag(project_id, seed, env)
    ELSE IF workflow_type = "extraction" THEN VerifyExtraction(project_id, seed, env)
    ELSE VerificationResult(<<Failed("workflow_type", "VALIDATION_ERROR",
                                     "Unknown workflow type")>>)

\* verify_workflow
VerifyWorkflow(project_id, workflow_type, seed, env) ==
    VerifyWorkflowGiven(CheckProjectPermission(project_id), project_id,
                        workflow_type, seed, env)

\* whether verify_workflow suspends (it awaits an HTTP HEAD) for this input
VerifierSuspends(workflow_type, seed) ==
    /\ seed.kind = "dict"
    /\ \/ workflow_type = "generation" /\ SeedGet(seed, "endpoint") # "None"
       \/ workflow_type = "rag" /\ SeedGet(seed, "source_url") # "None"

(***************************************************************************)
(* prepare_workflow.  A call runs without suspension from its entry to the *)
(* verifier's HTTP probe (if the input has one) and from the probe's       *)
(* answer to its return; _initialize_workflow awaits nothing.              *)
(***************************************************************************)
NoHash == [kind |-> "none", items |-> <<>>]

\* a call's record at entry; "after" holds the calls that had ended by then
NewCall(project_id, workflow_type, seed) ==
    [project_id |-> project_id, workflow_type |-> workflow_type, seed |-> seed,
     started |-> now, finished |-> 0, pc |-> "entry",
     after |-> {i \in 1..Len(calls) : calls[i].pc \in {"returned", "raised"}},
     seed_hash |-> NoHash,
     limited |-> FALSE, hit |-> FALSE, exc |-> FALSE,
     verifier_called |-> FALSE, initializer_called |-> FALSE,
     verified |-> "none", checks |-> <<>>, n_reasons |-> 0,
     success |-> FALSE, session_id |-> 0, session_expires |-> 0,
     launch_token |-> NoToken, redirect_path |-> NoPath,
     has_verification |-> FALSE, ready |-> FALSE, codes |-> <<>>]

SetCall(c, rec) ==
    IF c = Len(calls) + 1 THEN Append(calls, rec) ELSE [calls EXCEPT ![c] = rec]

\* the except branch re-raising in place of answering
ExceptionEscapes(rec) ==
    [rec EXCEPT !.pc = "raised", !.exc = TRUE, !.finished = now]

\* the except branch answering success=False and nothing else
ExceptionResponseBare(rec) ==
    [rec EXCEPT !.pc = "returned", !.exc = TRUE, !.finished = now,
                !.success = FALSE]

\* the "except Exception" handler of prepare_workflow
ExceptionResponse(rec) ==
    [rec EXCEPT !.pc = "returned", !.exc = TRUE, !.finished = now,
                !.success = FALSE, !.has_verification = TRUE, !.ready = FALSE,
                !.codes = <<"SYSTEM_ERROR">>]

\* the response of a rejected call
RateLimitedResponse(rec) ==
    [rec EXCEPT !.pc = "returned", !.limited = TRUE, !.finished = now,
                !.success = FALSE, !.has_verification = TRUE, !.ready = FALSE,
                !.codes = <<"RATE_LIMITED">>]

\* _get_redirect_path: the page of the workflow type with the session's id;
\* the project's place in it is still the placeholder
GetRedirectPath(workflow_type, session_id) ==
    [prefix |-> "/dashboard/projects/", project_id |-> "{project_id}",
     page |-> IF workflow_type = "generation" THEN "/evaluate?session_id="
              ELSE IF workflow_type = "rag" THEN "/rag-workflow?session_id="
              ELSE IF workflow_type = "extraction" THEN "/extraction-workflow?session_id="
              ELSE "",
     session_id |-> IF workflow_type \in {"generation", "rag", "extraction"}
                    THEN session_id ELSE 0]

\* redirect_path.format(project_id=project_id)
FormatPath(path, project_id) ==
    [path EXCEPT !.project_id = IF @ = "{project_id}" THEN project_id ELSE @]

\* the response that carries a session and a fresh token
LaunchedResponse(rec, session) ==
    [rec EXCEPT !.pc = "returned", !.finished = now, !.success = TRUE,
                !.session_id = session.session_id,
                !.session_expires = session.expires_at,
                !.launch_token = GenerateLaunchToken(session.session_id,
                                     rec.project_id, rec.workflow_type),
                !.redirect_path = FormatPath(GetRedirectPath(rec.workflow_type,
                                                 session.session_id),
                                             rec.project_id)]

\* the idempotent branch with a sliding expiry: the matched session is renewed
SessionsRefreshedOnHit(existing) ==
    [k \in 1..Len(sessions) |->
        IF sessions[k].session_id = existing.session_id
        THEN [sessions[k] EXCEPT !.expires_at = now + session_ttl_minutes * MinuteTicks]
        ELSE sessions[k]]

\* the idempotent branch of prepare_workflow writes nothing to the store
SessionsAfterHit(existing) == sessions

\* a continuation that initializes and launches whatever the verifier said
AfterVerifyIgnoringReady(c, rec0, vr) ==
    LET rec == [rec0 EXCEPT !.verifier_called = TRUE,
                            !.verified = IF vr.raised THEN "raised"
                                         ELSE IF vr.ready THEN "ready"
                                         ELSE "not_ready",
                            !.checks = vr.checks,
                            !.n_reasons = Len(vr.reasons)]
        session == InitializeWorkflow(rec.project_id, rec.workflow_type,
                                      rec.seed, rec.seed_hash)
    IN /\ sessions' = Append(sessions, session)
       /\ next_session_id' = next_session_id + 1
       /\ calls' = SetCall(c, LaunchedResponse(
                        [rec EXCEPT !.initializer_called = TRUE], session))

\* prepare_workflow from the verifier's result to the return
AfterVerify(c, rec0, vr) ==
    LET rec == [rec0 EXCEPT !.verifier_called = TRUE,
                            !.verified = IF vr.raised THEN "raised"
                                         ELSE IF vr.ready THEN "ready"
                                         ELSE "not_ready",
                            !.checks = vr.checks,
                            !.n_reasons = Len(vr.reasons)]
    IN IF vr.raised
       THEN /\ calls' = SetCall(c, ExceptionResponse(rec))
            /\ UNCHANGED <<sessions, next_session_id>>
       ELSE IF ~vr.ready
       THEN /\ calls' = SetCall(c, [rec EXCEPT !.pc = "returned", !.finished = now,
                                       !.success = FALSE, !.has_verification = TRUE,
                                       !.ready = vr.ready, !.codes = vr.codes])
            /\ UNCHANGED <<sessions, next_session_id>>
       ELSE LET session == InitializeWorkflow(rec.project_id, rec.workflow_type,
                                              rec.seed, rec.seed_hash)
            IN /\ sessions' = Append(sessions, session)
               /\ next_session_id' = next_session_id + 1
               /\ calls' = SetCall(c, LaunchedResponse(
                                [rec EXCEPT !.initializer_called = TRUE], session))

\* prepare_workflow from its entry to its return or to the verifier's probe
PrepareWorkflow(project_id, workflow_type, seed) ==
    /\ Len(calls) < MaxCalls
    /\ LET c == Len(calls) + 1
           rec == NewCall(project_id, workflow_type, seed)
           rl == CheckRateLimit(project_id)
           h == GenerateSeedHash(seed)
           existing == FindExistingSession(project_id, workflow_type, h.text)
       IN /\ rate_limiter' = [rate_limiter EXCEPT ![project_id] = rl.bucket]
          /\ IF ~rl.ok
             THEN /\ calls' = SetCall(c, RateLimitedResponse(rec))
                  /\ UNCHANGED <<sessions, next_session_id>>
             ELSE IF h.raised
             THEN /\ calls' = SetCall(c, ExceptionResponse(rec))
                  /\ UNCHANGED <<sessions, next_session_id>>
             ELSE IF existing # NoSession
             THEN /\ calls' = SetCall(c, LaunchedResponse(
                                   [rec EXCEPT !.seed_hash = h.text, !.hit = TRUE],
                                   existing))
                  /\ sessions' = SessionsAfterHit(existing)
                  /\ UNCHANGED next_session_id
             ELSE IF VerifierSuspends(workflow_type, seed)
             THEN /\ calls' = SetCall(c, [rec EXCEPT !.seed_hash = h.text,
                                                     !.pc = "verifying"])
                  /\ UNCHANGED <<sessions, next_session_id>>
             ELSE \E env \in VerifierEnvs :
                     AfterVerify(c, [rec EXCEPT !.seed_hash = h.text],
                                 VerifyWorkflow(project_id, workflow_type, seed, env))
    /\ UNCHANGED <<now, session_ttl_minutes, cleanup_enabled, next_sweep>>
    /\ UNCHANGED <<evalVars, simVars, httpVars, parseVars, ragVars>>

\* the verifier's probe answers and the suspended call runs to its return
VerifyResume(c) ==
    /\ c \in 1..Len(calls)
    /\ calls[c].pc = "verifying"
    /\ \E env \in VerifierEnvs :
          AfterVerify(c, calls[c],
                      VerifyWorkflow(calls[c].project_id, calls[c].workflow_type,
                                     calls[c].seed, env))
    /\ UNCHANGED <<now, rate_limiter, session_ttl_minutes, cleanup_enabled, next_sweep>>
    /\ UNCHANGED <<evalVars, simVars, httpVars, parseVars, ragVars>>

\* _cleanup_expired_sessions: one pass of the loop, then sleep(300)
CleanupExpiredSessions ==
    /\ cleanup_enabled
    /\ now >= next_sweep
    /\ sessions' = SelectSeq(sessions, LAMBDA s : ~(s.expires_at <= now))
    /\ next_sweep' = now + 5 * MinuteTicks
    /\ UNCHANGED <<now, rate_limiter, session_ttl_minutes, cleanup_enabled,
                   next_session_id, calls>>
    /\ UNCHANGED <<evalVars, simVars, httpVars, parseVars, ragVars>>

\* time passes; a sweeper pass that is due runs before the clock moves on
Tick ==
    /\ now < MaxTime
    /\ ~(cleanup_enabled /\ now >= next_sweep)
    /\ now' = now + 1
    /\ UNCHANGED <<sessions, rate_limiter, session_ttl_minutes, cleanup_enabled,
                   next_sweep, next_session_id, calls>>
    /\ UNCHANGED <<evalVars, simVars, httpVars, parseVars, ragVars>>

\* values of ORCH_SESSION_TTL_MIN the instance may be constructed with
SessionTtlChoices == {1, 5}

\* OrchestratorService.__init__
InitOrch ==
    /\ now = 0
    /\ sessions = <<>>
    /\ rate_limiter = [p \in Projects |-> <<>>]
    /\ session_ttl_minutes \in SessionTtlChoices
    /\ cleanup_enabled = TRUE
    /\ next_sweep = 0
    /\ next_session_id = 1
    /\ calls = <<>>
    \* no evaluation service and no simulator in use
    /\ configs = {}
    /\ evaluator_classes = {}
    /\ eval_log = <<>>
    /\ batch = <<>>
    /\ attempts = 0
    /\ tasks = <<>>
    /\ semaphore = 0
    /\ run = [pc |-> "idle"]
    /\ finish_order = <<>>
    /\ collected_scores = <<>>
    /\ route = [injected |-> 0, responses |-> <<>>]
    /\ llm_output = <<>>
    /\ parsed = [done |-> FALSE]
    /\ rag_page = [paras |-> <<>>, chunk_size |-> 0]
    /\ rag_sessions = {}
    /\ rag_next_id = 1
    /\ rag_calls = <<>>

NextOrch ==
    \/ \E i \in Inputs : PrepareWorkflow(i[1], i[2], i[3])
    \/ \E c \in 1..MaxCalls : VerifyResume(c)
    \/ CleanupExpiredSessions
    \/ Tick

SpecOrch == InitOrch /\ [][NextOrch]_vars

(***************************************************************************)
(* Properties of the orchestrator.                                         *)
(***************************************************************************)
Ended(i) == calls[i].pc \in {"returned", "raised"}

\* the sorted-key JSON encodings of the seeds of calls i and j are equal
SameCanonicalSeed(i, j) ==
    /\ ~JsonDumps(calls[i].seed).raised
    /\ ~JsonDumps(calls[j].seed).raised
    /\ JsonDumps(calls[i].seed).text = JsonDumps(calls[j].seed).text

SameKey(i, j) ==
    /\ calls[i].project_id = calls[j].project_id
    /\ calls[i].workflow_type = calls[j].workflow_type
    /\ SameCanonicalSeed(i, j)

\* C1: when a call succeeded, a later call with the same project, workflow
\* type and canonical seed that is issued before the session expires and
\* passes the rate limiter returns success with the same session_id.
C1_LaterCallSameSession ==
    \A i, j \in 1..Len(calls) :
        ( /\ calls[i].pc = "returned" /\ calls[i].success
          /\ i \in calls[j].after
          /\ SameKey(i, j)
          /\ calls[j].started < calls[i].session_expires
          /\ ~calls[j].limited )
        => ( /\ calls[j].pc = "returned"
             /\ calls[j].success
             /\ calls[j].session_id = calls[i].session_id )

\* calls of project p that passed the rate limiter with a start time in [a, b)
Admitted(p, a, b) ==
    {i \in 1..Len(calls) : /\ calls[i].project_id = p
                           /\ ~calls[i].limited
                           /\ a <= calls[i].started
                           /\ calls[i].started < b}

RateLimitedOut(i) ==
    /\ calls[i].pc = "returned"
    /\ ~calls[i].success
    /\ \E k \in 1..Len(calls[i].codes) : calls[i].codes[k] = "RATE_LIMITED"

C3_NeverRaises ==
    \A i \in 1..Len(calls) :
        /\ calls[i].pc # "raised"
        /\ calls[i].exc => /\ calls[i].pc = "returned"
                           /\ ~calls[i].success
                           /\ calls[i].has_verification
                           /\ calls[i].codes = <<"SYSTEM_ERROR">>

\* a seed that is no mapping made the verifier raise, a seed that cannot be
\* encoded made the hash raise, and an unknown workflow type was answered
C3_Witness ==
    /\ \E i \in 1..Len(calls) :
          calls[i].exc /\ calls[i].verifier_called /\ calls[i].seed = SeedList
    /\ \E i \in 1..Len(calls) :
          calls[i].exc /\ ~calls[i].verifier_called /\ calls[i].seed = SeedSet
    /\ \E i \in 1..Len(calls) :
          Ended(i) /\ calls[i].workflow_type = "quantum"

\* call i returned success with a session and a token
Launched(i) == calls[i].pc = "returned" /\ calls[i].success

\* C11: any two successful prepare_workflow calls that return the same
\* session_id return different launch tokens, however close in time they
\* are, and both tokens' payloads carry that session_id.
C11_DistinctTokens ==
    \A i, j \in 1..Len(calls) :
        (i # j /\ Launched(i) /\ Launched(j)
              /\ calls[i].session_id = calls[j].session_id) =>
            /\ calls[i].launch_token # calls[j].launch_token
            /\ calls[i].launch_token.session_id = calls[i].session_id
            /\ calls[j].launch_token.session_id = calls[j].session_id

\* the step is a prepare_workflow call that matched an existing session
HitStep ==
    /\ Len(calls') = Len(calls) + 1
    /\ calls'[Len(calls')].hit

\* C12: a prepare_workflow call that matches an existing non-expired session
\* leaves the session store as it was (no session added, the matched session
\* unchanged) and invokes neither the verifier nor the initializer.
C12_HitLeavesStore ==
    [][HitStep =>
          /\ sessions' = sessions
          /\ next_session_id' = next_session_id
          /\ ~calls'[Len(calls')].verifier_called
          /\ ~calls'[Len(calls')].initializer_called]_vars

\* a call matched a session that an earlier call had stored a tick before
C12_Witness ==
    \E i \in 1..Len(calls) :
        /\ calls[i].hit
        /\ Launched(i)
        /\ \E k \in 1..Len(sessions) :
              /\ sessions[k].session_id = calls[i].session_id
              /\ sessions[k].created_at < calls[i].started

\* C13: every launch token issued, for a new session or re-issued for an
\* existing one at any moment of its lifetime, expires no later than the
\* session, unless the configured session TTL is below 5 minutes.
C13_TokenWithinSession ==
    session_ttl_minutes >= 5 =>
        \A i \in 1..Len(calls) :
            Launched(i) => calls[i].launch_token.exp <= calls[i].session_expires

\* the calls of project p, in the order they entered prepare_workflow
RECURSIVE CallsOf(_, _)
CallsOf(p, n) ==
    IF n = 0 THEN <<>>
    ELSE IF calls[n].project_id = p THEN Append(CallsOf(p, n - 1), n)
    ELSE CallsOf(p, n - 1)

\* all calls of the sequence of indices idx entered within one tick
OneBurst(idx) == \A a, b \in 1..Len(idx) : calls[idx[a]].started = calls[idx[b]].started

\* C14: starting from an empty bucket, of max_requests_per_minute + 1 calls
\* for one project issued within one second, the first max_requests_per_minute
\* are not rejected by the rate limiter and exactly the last one returns
\* success=false with RATE_LIMITED.
C14_OnlyTheLastOfBurstRejected ==
    \A p \in Projects :
        LET idx == CallsOf(p, Len(calls))
        IN  OneBurst(idx) =>
               \A k \in 1..Len(idx) :
                  /\ calls[idx[k]].limited <=> k > max_requests_per_minute
                  /\ calls[idx[k]].limited =>
                        /\ calls[idx[k]].pc = "returned"
                        /\ ~calls[idx[k]].success
                        /\ calls[idx[k]].codes = <<"RATE_LIMITED">>

\* a burst of max_requests_per_minute + 1 calls with pairwise different seeds
C14_Witness ==
    LET idx == CallsOf("P", Len(calls))
    IN  /\ Len(idx) = max_requests_per_minute + 1
        /\ OneBurst(idx)
        /\ \A a, b \in 1..Len(idx) : a # b => calls[idx[a]].seed # calls[idx[b]].seed
        /\ calls[idx[Len(idx)]].limited
        /\ \A k \in 1..max_requests_per_minute : Ended(idx[k]) /\ ~calls[idx[k]].limited

WorkflowTypes == {"generation", "rag", "extraction"}

\* the step is a prepare_workflow call with an unknown workflow type and a
\* seed that has a canonical JSON encoding, let through by the rate limiter
UnknownTypeStep ==
    /\ Len(calls') = Len(calls) + 1
    /\ calls'[Len(calls')].workflow_type \notin WorkflowTypes
    /\ ~calls'[Len(calls')].limited
    /\ ~JsonDumps(calls'[Len(calls')].seed).raised

\* the timestamps of a bucket that lie inside the window ending at t
InWindow(bucket, t) == {k \in 1..Len(bucket) : bucket[k] > t - MinuteTicks}

ReadyCalls == {i \in 1..Len(calls) : calls[i].verified = "ready"}

\* C17: prepare_workflow returns success=true with a launch token only after
\* an idempotent hit or a verification with ready=true; whenever verification
\* returns ready=false (always for extraction) no session is added to the
\* store and no launch token is issued.
C17_LaunchOnlyWhenReady ==
    /\ \A i \in 1..Len(calls) :
          /\ Launched(i) =>
                /\ calls[i].launch_token # NoToken
                /\ calls[i].hit \/ calls[i].verified = "ready"
          /\ calls[i].verified = "not_ready" =>
                /\ calls[i].pc = "returned"
                /\ ~calls[i].success
                /\ calls[i].launch_token = NoToken
                /\ calls[i].session_id = 0
                /\ ~calls[i].initializer_called
          /\ (calls[i].workflow_type = "extraction" /\ calls[i].verifier_called) =>
                calls[i].verified = "not_ready"
    /\ next_session_id = 1 + Cardinality(ReadyCalls)
    /\ \A k \in 1..Len(sessions) :
          \E i \in ReadyCalls : calls[i].session_id = sessions[k].session_id

\* an extraction call and a generation call were refused by the verifier and
\* a third call was launched
C17_Witness ==
    /\ \E i \in 1..Len(calls) :
          calls[i].workflow_type = "extraction" /\ calls[i].verified = "not_ready"
    /\ \E i \in 1..Len(calls) :
          calls[i].workflow_type = "generation" /\ calls[i].verified = "not_ready"
    /\ \E i \in 1..Len(calls) : Launched(i) /\ calls[i].verified = "ready"

\* the names of the checks a workflow type has for a seed, in their order
ExpectedChecks(workflow_type, seed) ==
    CASE workflow_type = "generation" ->
            <<"api_key">>
            \o (IF SeedGet(seed, "endpoint") # "None" THEN <<"endpoint">> ELSE <<>>)
            \o <<"permissions">>
      [] workflow_type = "rag" ->
            (IF SeedGet(seed, "source_url") # "None" THEN <<"source_url">> ELSE <<>>)
            \o <<"rag_service">>
      [] workflow_type = "extraction" -> <<"extraction">>
      [] OTHER -> <<"workflow_type">>

\* the failed checks of a list of CheckResults
FailedChecks(checks) == {k \in 1..Len(checks) : checks[k].status = "fail"}

\* what verify_workflow returns for each input when the authorization check
\* denies
DeniedResults ==
    {VerifyWorkflowGiven(FALSE, i[1], i[2], i[3], env) :
        i \in Inputs, env \in VerifierEnvs}

\* the calls whose verifier returned a VerificationResult
VerifiedCalls == {i \in 1..Len(calls) : calls[i].verified \in {"ready", "not_ready"}}

\* C29: verify_workflow runs the project-authorization check first and on
\* denial returns PERMISSION_DENIED alone, no other check run; otherwise
\* every check of the workflow type runs, in a fixed order and whatever
\* failed before, and codes and reasons hold one entry per failed check.
C29_ChecksAccumulate ==
    /\ \A denied \in DeniedResults :
          /\ ~denied.raised /\ ~denied.ready
          /\ denied.codes = <<"PERMISSION_DENIED">>
          /\ Len(denied.checks) = 1
          /\ denied.checks[1].name = "authorization"
          /\ Len(denied.reasons) = 1
    /\ \A i \in VerifiedCalls :
          LET c == calls[i]
          IN  /\ [k \in 1..Len(c.checks) |-> c.checks[k].name]
                    = ExpectedChecks(c.workflow_type, c.seed)
              /\ Len(c.codes) = Cardinality(FailedChecks(c.checks))
              /\ c.n_reasons = Cardinality(FailedChecks(c.checks))
              /\ c.verified = "ready" <=> FailedChecks(c.checks) = {}

\* a generation call whose api_key and endpoint checks both failed and whose
\* permissions check still ran
C29_Witness ==
    \E i \in VerifiedCalls :
        /\ calls[i].workflow_type = "generation"
        /\ calls[i].codes = <<"CONFIG_MISSING", "CONNECTIVITY_ERROR">>
        /\ Len(calls[i].checks) = 3
        /\ calls[i].checks[3] = [name |-> "permissions", status |-> "ok"]

(***************************************************************************)
(* The HTTP route POST /orchestrator/{project_id}/{workflow_type}/prepare. *)
(* The requests are those of a client that sends one request after the     *)
(* answer to the one before; sessions and rate_limiter are the fields of   *)
(* the OrchestratorService the request in hand was given.                  *)
(***************************************************************************)
\* the seed of a request without a body
SeedEmpty == [kind |-> "dict", items |-> <<>>]

\* what a request can carry: the path gives any project and workflow type,
\* WorkflowPrepareRequest lets only a JSON object through as the seed
HttpInputs ==
    {i \in Inputs : i[3].kind = "dict"} \cup { <<"P", "generation", SeedEmpty>> }

\* get_orchestrator_service, resolved by Depends for each request: a new
\* OrchestratorService with an empty store and empty buckets; no event loop
\* in the worker thread that runs the dependency, so no sweeper is started
GetOrchestratorService ==
    /\ route.injected = Len(calls)
    /\ Len(route.responses) = Len(calls)
    /\ Len(calls) < MaxCalls
    /\ sessions' = <<>>
    /\ rate_limiter' = [p \in Projects |-> <<>>]
    /\ cleanup_enabled' = FALSE
    /\ route' = [route EXCEPT !.injected = @ + 1]
    /\ UNCHANGED <<now, session_ttl_minutes, next_sweep, next_session_id, calls>>
    /\ UNCHANGED <<evalVars, simVars, parseVars, ragVars>>

\* the body of prepare_evaluation_workflow up to the return or the first
\* suspension of orchestrator.prepare_workflow
RoutePrepare(project_id, workflow_type, seed) ==
    /\ route.injected = Len(calls) + 1
    /\ PrepareWorkflow(project_id, workflow_type, seed)

\* the status the route gives the response
StatusCode(result) ==
    IF /\ ~result.success
       /\ result.has_verification
       /\ \E k \in 1..Len(result.codes) : result.codes[k] = "RATE_LIMITED"
    THEN 429
    ELSE 200

\* prepare_evaluation_workflow returns the result with its status
RouteRespond ==
    /\ Len(route.responses) < Len(calls)
    /\ calls[Len(calls)].pc = "returned"
    /\ route' = [route EXCEPT !.responses = Append(@, StatusCode(calls[Len(calls)]))]
    /\ UNCHANGED <<orchVars, evalVars, simVars, parseVars, ragVars>>

\* the process before its first request
InitHttp ==
    /\ now = 0
    /\ sessions = <<>>
    /\ rate_limiter = [p \in Projects |-> <<>>]
    /\ session_ttl_minutes \in SessionTtlChoices
    /\ cleanup_enabled = FALSE
    /\ next_sweep = 0
    /\ next_session_id = 1
    /\ calls = <<>>
    /\ configs = {}
    /\ evaluator_classes = {}
    /\ eval_log = <<>>
    /\ batch = <<>>
    /\ attempts = 0
    /\ tasks = <<>>
    /\ semaphore = 0
    /\ run = [pc |-> "idle"]
    /\ finish_order = <<>>
    /\ collected_scores = <<>>
    /\ route = [injected |-> 0, responses |-> <<>>]
    /\ llm_output = <<>>
    /\ parsed = [done |-> FALSE]
    /\ rag_page = [paras |-> <<>>, chunk_size |-> 0]
    /\ rag_sessions = {}
    /\ rag_next_id = 1
    /\ rag_calls = <<>>

NextHttp ==
    \/ GetOrchestratorService
    \/ \E i \in HttpInputs : RoutePrepare(i[1], i[2], i[3])
    \/ \E c \in 1..MaxCalls : VerifyResume(c)
    \/ RouteRespond
    \/ Tick

SpecHttp == InitHttp /\ [][NextHttp]_vars

\* C15: the orchestrator state an HTTP prepare request consults holds the
\* effects of every earlier prepare request of the process, so that of the
\* requests for one project sent within one second through the route, each
\* one after the first max_requests_per_minute is answered with status 429.
C15_RouteAnswers429 ==
    \A p \in Projects :
        LET idx == CallsOf(p, Len(calls))
        IN OneBurst(idx) =>
              \A k \in 1..Len(idx) :
                 (k > max_requests_per_minute /\ idx[k] <= Len(route.responses)) =>
                     route.responses[idx[k]] = 429

(***************************************************************************)
(* Judges: one exchange with a provider's API, the provider's call_llm,    *)
(* and BaseEvaluator.evaluate around it.                                   *)
(***************************************************************************)

\* tenacity's stop_after_attempt(3)
MaxAttempt == 3

\* what one HTTP exchange with a judge's API yields
XOk(m) == [kind |-> "ok", match_level |-> m]
\* a JSON object whose match_level is no integer
XSchema == [kind |-> "schema", match_level |-> 0]
\* text that holds no JSON object
XText == [kind |-> "text", match_level |-> 0]
\* an answer with a 4xx/5xx status
XHttp == [kind |-> "http", match_level |-> 0]
\* httpx.RequestError: no answer
XNet == [kind |-> "net", match_level |-> 0]

\* how a judge's API behaves over consecutive exchanges
Always(x) == [first |-> x, rest |-> x]
FlakyThenOk == [first |-> XNet, rest |-> XOk(4)]
Exchange(script, n) == IF n = 1 THEN script.first ELSE script.rest

\* what call_llm hands back: a mapping (valid, schema-invalid or an error
\* marker) or an exception; used = exchanges consumed
LlmRaised(used) == [raised |-> TRUE, kind |-> "none", match_level |-> 0, used |-> used]
LlmDict(kind, m, used) == [raised |-> FALSE, kind |-> kind, match_level |-> m, used |-> used]

\* IonosEvaluator.call_llm: only httpx.RequestError is caught
IonosCallLlm(script, n) ==
    LET x == Exchange(script, n)
    IN  CASE x.kind = "net" -> LlmDict("marker", 0, 1)
          [] x.kind = "http" -> LlmRaised(1)
          [] x.kind = "ok" -> LlmDict("valid", x.match_level, 1)
          [] x.kind = "schema" -> LlmDict("bad_schema", 0, 1)
          [] OTHER -> LlmDict("marker", 0, 1)

\* OpenAIEvaluator.call_llm: the return after the except block reads the
\* unbound name e, so every failed exchange raises and tenacity retries
RECURSIVE OpenAIAttempt(_, _, _)
OpenAIAttempt(script, n, a) ==
    LET x == Exchange(script, n + a - 1)
    IN  IF x.kind = "ok" THEN LlmDict("valid", x.match_level, a)
        ELSE IF a = MaxAttempt THEN LlmRaised(a)
        ELSE OpenAIAttempt(script, n, a + 1)

OpenAICallLlm(script, n) == OpenAIAttempt(script, n, 1)

\* level-core IonosEvaluator.call_llm: tenacity retries httpx.RequestError
\* only; an error status propagates at once
RECURSIVE IonosRetryingAttempt(_, _, _)
IonosRetryingAttempt(script, n, a) ==
    LET x == Exchange(script, n + a - 1)
    IN  CASE x.kind = "net" ->
               IF a = MaxAttempt THEN LlmRaised(a)
               ELSE IonosRetryingAttempt(script, n, a + 1)
          [] x.kind = "http" -> LlmRaised(a)
          [] x.kind = "ok" -> LlmDict("valid", x.match_level, a)
          [] x.kind = "schema" -> LlmDict("bad_schema", 0, a)
          [] OTHER -> LlmDict("marker", 0, a)

IonosRetryingCallLlm(script, n) == IonosRetryingAttempt(script, n, 1)

\* level-core OpenAIEvaluator.call_llm: the except block returns the marker
OpenAICatchingCallLlm(script, n) ==
    LET x == Exchange(script, n)
    IN  IF x.kind = "ok" THEN LlmDict("valid", x.match_level, 1)
        ELSE LlmDict("marker", 0, 1)

\* the evaluator classes: of level_core (evaluator_map) and of level-core
CoreClasses == {"openai", "ionos"}
Class(service, provider) == <<service, provider>>

CallLlm(class, script, n) ==
    CASE class = Class("level_core", "openai") -> OpenAICallLlm(script, n)
      [] class = Class("level_core", "ionos") -> IonosCallLlm(script, n)
      [] class = Class("level-core", "openai") -> OpenAICatchingCallLlm(script, n)
      [] OTHER -> IonosRetryingCallLlm(script, n)

\* EvaluationResult; error = metadata has a non-empty "error"
Result(m, justification, error) ==
    [match_level |-> m, justification |-> justification, error |-> error,
     key_points |-> <<>>]

NoResult == Result(0, "none", FALSE)

\* outcome of evaluate: an exception, None, or an EvaluationResult
EvalRaised(used) ==
    [raised |-> TRUE, is_none |-> FALSE, judge |-> "raised", result |-> NoResult,
     used |-> used]
EvalReturned(kind, result, used) ==
    [raised |-> FALSE, is_none |-> kind = "bad_schema", judge |-> kind,
     result |-> result, used |-> used]

\* EvaluationResult.model_validate: missing fields take their defaults and
\* extra keys such as "error" are dropped
ModelValidate(r) ==
    IF r.kind = "valid" THEN Result(r.match_level, "judge", FALSE)
    ELSE IF r.kind = "marker" THEN Result(0, "", FALSE)
    ELSE NoResult

\* BaseEvaluator.evaluate under @retry(stop_after_attempt(3))
RECURSIVE EvaluateAttempt(_, _, _, _)
EvaluateAttempt(class, script, n, a) ==
    LET r == CallLlm(class, script, n)
    IN  IF r.raised
        THEN IF a = MaxAttempt THEN EvalRaised(n + r.used - 1)
             ELSE EvaluateAttempt(class, script, n + r.used, a + 1)
        ELSE EvalReturned(r.kind, ModelValidate(r), n + r.used - 1)

\* every behaviour of a judge's API used below
Scripts == {Always(XOk(5)), Always(XOk(2)), Always(XOk(0)), Always(XOk(7)),
            Always(XNet), Always(XHttp), Always(XText), Always(XSchema),
            FlakyThenOk}

Services == {"level_core", "level-core"}

\* evaluate for every class and script, computed once
EvaluateTable ==
    [class \in Services \X CoreClasses, script \in Scripts |->
        EvaluateAttempt(class, script, 1, 1)]

Evaluate(class, script) == EvaluateTable[class, script]

(***************************************************************************)
(* EvaluationService: level_core (evaluator_map, try/except, key points)   *)
(* and level-core (registry, no try/except).                               *)
(***************************************************************************)

Providers == {"openai", "ionos", "claude"}

\* the values evaluate_response can be handed as a text: a str, None, or
\* another object such as a dict (the annotations are not enforced)
Str(s) == [type |-> "str", value |-> s]
PyNone == [type |-> "NoneType", value |-> ""]
PyDict == [type |-> "dict", value |-> "text"]

\* bool(text)
Truthy(text) == text.type = "dict" \/ (text.type = "str" /\ text.value # "")

\* extract_key_point on a text of at most max_words words: "" for no text,
\* else the text with its whitespace normalised (the texts here have none);
\* text.strip() raises AttributeError on an object that is no str
ExtractKeyPoint(text) ==
    IF ~Truthy(text) THEN [raised |-> FALSE, key_point |-> ""]
    ELSE IF text.type # "str" THEN [raised |-> TRUE, key_point |-> ""]
    ELSE [raised |-> FALSE, key_point |-> text.value]

\* outcome of evaluate_response
Raised(exception, e) ==
    [raised |-> TRUE, exception |-> exception, is_none |-> FALSE, judge |-> e.judge,
     result |-> NoResult, used |-> e.used]
Returned(result, e) ==
    [raised |-> FALSE, exception |-> "", is_none |-> FALSE, judge |-> e.judge,
     result |-> result, used |-> e.used]
ReturnedNone(e) ==
    [raised |-> FALSE, exception |-> "", is_none |-> TRUE, judge |-> e.judge,
     result |-> NoResult, used |-> e.used]

NotCalled == [raised |-> FALSE, is_none |-> FALSE, judge |-> "not_called",
              result |-> NoResult, used |-> 0]

\* evaluator.evaluate awaited with no handler around it
EvaluateUnguarded(class, script) == Evaluate(class, script)

\* the try/except around evaluator.evaluate
EvaluateGuarded(class, script) ==
    LET e == Evaluate(class, script)
    IN  IF e.raised
        THEN [e EXCEPT !.raised = FALSE, !.result = Result(0, "", TRUE)]
        ELSE e

\* the metadata update after the try/except
WithKeyPoints(result, output_text, reference_text) ==
    [result EXCEPT !.key_points =
        <<ExtractKeyPoint(reference_text).key_point,
          ExtractKeyPoint(output_text).key_point>>]

\* level_core EvaluationService.evaluate_response
EvaluateResponse(provider, output_text, reference_text, script) ==
    IF provider \notin configs THEN Raised("ValueError", NotCalled)
    ELSE IF provider \notin CoreClasses THEN Raised("KeyError", NotCalled)
    ELSE LET e == EvaluateGuarded(Class("level_core", provider), script)
         IN  IF e.raised THEN Raised("RetryError", e)
             ELSE IF e.is_none THEN Raised("AttributeError", e)
             ELSE IF ExtractKeyPoint(reference_text).raised THEN Raised("AttributeError", e)
             ELSE IF ExtractKeyPoint(output_text).raised THEN Raised("AttributeError", e)
             ELSE Returned(WithKeyPoints(e.result, output_text, reference_text), e)

\* level-core EvaluationService.evaluate_response
EvaluateResponseRegistry(provider, output_text, reference_text, script) ==
    IF provider \notin configs THEN Raised("ValueError", NotCalled)
    ELSE IF provider \notin evaluator_classes THEN Raised("KeyError", NotCalled)
    ELSE LET e == Evaluate(Class("level-core", provider), script)
         IN  IF e.raised THEN Raised("RetryError", e)
             ELSE IF e.is_none THEN ReturnedNone(e)
             ELSE Returned(e.result, e)

(***************************************************************************)
(* The evaluation service on its own: configuration, registration and      *)
(* evaluate_response calls.                                                *)
(***************************************************************************)

MaxEvals == 2

\* level-core EvaluationService.set_config
SetConfig(provider) ==
    /\ provider \notin configs
    /\ configs' = configs \cup {provider}
    /\ UNCHANGED <<evaluator_classes, eval_log, orchVars, simVars, httpVars, parseVars, ragVars>>

\* level-core EvaluationService.register_evaluator
RegisterEvaluator(provider) ==
    /\ provider \notin evaluator_classes
    /\ evaluator_classes' = evaluator_classes \cup {provider}
    /\ UNCHANGED <<configs, eval_log, orchVars, simVars, httpVars, parseVars, ragVars>>

LogEntry(service, provider, script, out) ==
    [service |-> service, provider |-> provider, script |-> script,
     configured |-> provider \in configs,
     registered |-> IF service = "level_core" THEN provider \in CoreClasses
                    ELSE provider \in evaluator_classes,
     out |-> out]

\* one evaluate_response call on the level_core service, start to end
EvaluateResponseCall(provider, script) ==
    /\ Len(eval_log) < MaxEvals
    /\ eval_log' = Append(eval_log, LogEntry("level_core", provider, script,
                        EvaluateResponse(provider, Str("out"), Str("ref"), script)))
    /\ UNCHANGED <<configs, evaluator_classes, orchVars, simVars, httpVars, parseVars, ragVars>>

\* one evaluate_response call on the level-core service, start to end
EvaluateResponseRegistryCall(provider, script) ==
    /\ Len(eval_log) < MaxEvals
    /\ eval_log' = Append(eval_log, LogEntry("level-core", provider, script,
                        EvaluateResponseRegistry(provider, Str("out"), Str("ref"), script)))
    /\ UNCHANGED <<configs, evaluator_classes, orchVars, simVars, httpVars, parseVars, ragVars>>

\* EvaluationService.__init__: level_core reads the providers of config.yaml,
\* level-core starts empty
InitEval ==
    /\ configs \in SUBSET Providers
    /\ evaluator_classes = {}
    /\ eval_log = <<>>
    \* no orchestrator call and no simulator in use
    /\ now = 0
    /\ sessions = <<>>
    /\ rate_limiter = [p \in Projects |-> <<>>]
    /\ session_ttl_minutes = 1
    /\ cleanup_enabled = FALSE
    /\ next_sweep = 0
    /\ next_session_id = 1
    /\ calls = <<>>
    /\ batch = <<>>
    /\ attempts = 0
    /\ tasks = <<>>
    /\ semaphore = 0
    /\ run = [pc |-> "idle"]
    /\ finish_order = <<>>
    /\ collected_scores = <<>>
    /\ route = [injected |-> 0, responses |-> <<>>]
    /\ llm_output = <<>>
    /\ parsed = [done |-> FALSE]
    /\ rag_page = [paras |-> <<>>, chunk_size |-> 0]
    /\ rag_sessions = {}
    /\ rag_next_id = 1
    /\ rag_calls = <<>>

NextEval ==
    \/ \E p \in Providers : SetConfig(p)
    \/ \E p \in CoreClasses : RegisterEvaluator(p)
    \/ \E p \in Providers, sc \in Scripts : EvaluateResponseCall(p, sc)
    \/ \E p \in Providers, sc \in Scripts : EvaluateResponseRegistryCall(p, sc)

SpecEval == InitEval /\ [][NextEval]_vars

\* C9: evaluate_response never raises to its caller for a configured
\* provider, whatever the judge does and whether or not an evaluator class
\* exists for the provider: it returns an EvaluationResult.
C9_ConfiguredNeverRaises ==
    \A i \in 1..Len(eval_log) :
        eval_log[i].configured =>
            ~eval_log[i].out.raised /\ ~eval_log[i].out.is_none

\* the judge of a call failed: call_llm returned an error marker (transport
\* error, output that is no JSON) or the evaluator raised
JudgeFailed(entry) == entry.out.judge \in {"marker", "raised"}

\* C10: whenever a judge call fails, the EvaluationResult returned for the
\* provider has match_level 0 and a non-empty metadata.error.
C10_FailureHasError ==
    \A i \in 1..Len(eval_log) :
        (JudgeFailed(eval_log[i]) /\ ~eval_log[i].out.raised) =>
            eval_log[i].out.result.match_level = 0 /\ eval_log[i].out.result.error

(***************************************************************************)
(* ConversationSimulator: simulate_conversation gathers one                *)
(* simulate_single_scenario coroutine per conversation of the batch.       *)
(***************************************************************************)

MaxConversations == 2
MaxTurns == 2
MaxAttempts == 2
\* most agent requests one run makes: turns of the batch times attempts
MaxRequests == 3

ConversationIds == <<"s1", "s2", "s3">>
UserMessages ==
    << <<"u11", "u12", "u13">>, <<"u21", "u22", "u23">>, <<"u31", "u32", "u33">> >>
ReferenceReplies ==
    << <<"r11", "r12", "r13">>, <<"r21", "r22", "r23">>, <<"r31", "r32", "r33">> >>

\* Interaction k of conversation c
Interaction(c, k) ==
    [id |-> <<c, k>>, user_message |-> UserMessages[c][k],
     reference_reply |-> ReferenceReplies[c][k]]

\* BasicConversation c with n interactions
Conversation(c, n) ==
    [id |-> ConversationIds[c], interactions |-> [k \in 1..n |-> Interaction(c, k)]]

\* the batches: up to MaxConversations conversations of up to MaxTurns turns
Shapes ==
    UNION {[1..n -> 0..MaxTurns] : n \in 0..MaxConversations}
Batch(shape) == [c \in 1..Len(shape) |-> Conversation(c, shape[c])]

RECURSIVE Sum(_)
Sum(seq) == IF seq = <<>> THEN 0 ELSE seq[1] + Sum(Tail(seq))

\* a mapping with no key, as defaultdict(list) before any append
EmptyScores == [p \in {} |-> 0]

\* calculate_average on a dict of lists: round(sum / len, 3) per key, kept in
\* thousandths; no tie arises for lists of up to MaxRequests integers
CalculateAverage(data) ==
    [key \in DOMAIN data |->
        IF Len(data[key]) = 0 THEN 0
        ELSE (2 * 1000 * Sum(data[key]) + Len(data[key])) \div (2 * Len(data[key]))]

\* what the agent endpoint does with one request
AgentOutcomes == {"200", "204", "500", "network"}
NoResponse == [status_code |-> 0, text |-> "", none |-> TRUE]

\* the body of the agent's 200 answer: a JSON object with the reply in it
AgentBody == "{\"content\": \"reply\"}"

\* async_request: raise_for_status, None on HTTPStatusError and RequestError
AsyncRequest(outcome) ==
    CASE outcome = "200" -> [status_code |-> 200, text |-> AgentBody, none |-> FALSE]
      [] outcome = "204" -> [status_code |-> 204, text |-> "", none |-> FALSE]
      [] OTHER -> NoResponse

\* s.startswith(("{", "[")) on the texts used
StartsWithBracket(s) == s = AgentBody

\* json.loads on the texts used: the items of the object, in order
JsonLoads(s) ==
    IF s = AgentBody THEN [raised |-> FALSE, obj |-> << <<"content", "reply">> >>]
    ELSE [raised |-> TRUE, obj |-> <<>>]

\* the paths of adapt_agent_response that have one key; the longer ones find
\* nothing in an object whose values are all strings
AdaptPaths == <<"content", "message">>

\* the first path of the list that leads to a string
RECURSIVE FirstPath(_, _)
FirstPath(obj, paths) ==
    IF paths = <<>> THEN "None"
    ELSE IF Lookup(obj, Head(paths)) # "None" THEN Lookup(obj, Head(paths))
    ELSE FirstPath(obj, Tail(paths))

\* adapt_agent_response on a text without surrounding white space: the text
\* itself unless it parses as JSON, then the string at the first known path,
\* else the first string value, else the text
AdaptAgentResponse(raw) ==
    IF ~StartsWithBracket(raw) THEN raw
    ELSE LET loaded == JsonLoads(raw)
         IN  IF loaded.raised THEN raw
             ELSE IF FirstPath(loaded.obj, AdaptPaths) # "None"
             THEN FirstPath(loaded.obj, AdaptPaths)
             ELSE IF loaded.obj # <<>> THEN loaded.obj[1][2]
             ELSE raw

\* the branch taken for "not response or not response.status_code == 200"
RequestFailed(response) == response.none \/ ~(response.status_code = 200)

\* mapping provider -> EvaluationResult with no entry
NoEvaluations == [p \in {} |-> NoResult]

\* one entry of the list simulate__interactions returns; http and scripts
\* record what the agent and the judges did on that turn
TurnResult(interaction, agent_reply, evaluation_results, http, scripts, judged) ==
    [user_message |-> interaction.user_message,
     agent_reply |-> agent_reply,
     reference_reply |-> interaction.reference_reply,
     evaluation_results |-> evaluation_results,
     http |-> http, scripts |-> scripts, judged |-> judged]

\* the failure branch leaves the turn out
SkipFailed(results, interaction, http) == results

\* the failure branch of simulate__interactions: append and continue
AppendFailed(results, interaction, http) ==
    Append(results, TurnResult(interaction, "Request failed", NoEvaluations,
                               http, <<>>, ""))

\* evaluate_interaction: evaluate_response for "openai" and "ionos", gathered
EvaluateInteraction(extracted_vla_reply, reference_vla_reply, so, si) ==
    LET openai == EvaluateResponse("openai", Str(extracted_vla_reply),
                                   Str(reference_vla_reply), so)
        ionos == EvaluateResponse("ionos", Str(extracted_vla_reply),
                                  Str(reference_vla_reply), si)
    IN  [raised |-> openai.raised \/ ionos.raised,
         results |-> [p \in {"openai", "ionos"} |->
                         IF p = "openai" THEN openai.result ELSE ionos.result]]

NoScenarioResult ==
    [scenario_id |-> "", attempts |-> <<>>, average_scores |-> EmptyScores]

\* a simulate_single_scenario coroutine that has not run yet
NewTask ==
    [pc |-> "pending", attempt |-> 0, turn |-> 0, results |-> <<>>,
     response |-> NoResponse, attempt_results |-> <<>>,
     all_attempts_scores |-> EmptyScores, result |-> NoScenarioResult,
     crash |-> <<>>]

\* f"batch-{attempt+1}": the prefix and the number after it
ConversationId(n) == <<"batch-", n>>

\* a pass of the attempts loop that numbers the attempts as range() does
EndAttemptFromZero(t, a, interactions_results, scores) ==
    LET single_attempt_scores == CalculateAverage(scores)
    IN  [t EXCEPT
           !.all_attempts_scores =
               [key \in DOMAIN @ |-> Append(@[key], single_attempt_scores)],
           !.attempt_results =
               Append(@, [attempt_id |-> a - 1,
                          conversation_id |-> ConversationId(a - 1),
                          interactions |-> interactions_results,
                          average_scores |-> single_attempt_scores])]

\* the end of one pass of the attempts loop
EndAttempt(t, a, interactions_results, scores) ==
    LET single_attempt_scores == CalculateAverage(scores)
    IN  [t EXCEPT
           !.all_attempts_scores =
               [key \in DOMAIN @ |-> Append(@[key], single_attempt_scores)],
           !.attempt_results =
               Append(@, [attempt_id |-> a, conversation_id |-> ConversationId(a),
                          interactions |-> interactions_results,
                          average_scores |-> single_attempt_scores])]

\* the return of simulate_single_scenario
EndScenario(scenario, t) ==
    [t EXCEPT !.pc = "done", !.results = <<>>, !.response = NoResponse,
              !.result = [scenario_id |-> scenario.id,
                          attempts |-> t.attempt_results,
                          average_scores |-> CalculateAverage(t.all_attempts_scores)]]

\* the attempts loop from attempt a on, up to its next suspension: the first
\* agent request of an attempt, or the return when no attempt is left; an
\* attempt over no interaction ends without suspending
RECURSIVE BeginAttempt(_, _, _)
BeginAttempt(scenario, t, a) ==
    IF a > attempts THEN EndScenario(scenario, t)
    ELSE IF Len(scenario.interactions) = 0
    THEN BeginAttempt(scenario, EndAttempt(t, a, <<>>, EmptyScores), a + 1)
    ELSE [t EXCEPT !.pc = "agent", !.attempt = a, !.turn = 1, !.results = <<>>,
                   !.response = NoResponse]

\* the interactions loop after a turn's result was appended
AfterTurn(scenario, t, results) ==
    IF t.turn < Len(scenario.interactions)
    THEN [t EXCEPT !.pc = "agent", !.turn = @ + 1, !.results = results,
                   !.response = NoResponse]
    ELSE BeginAttempt(scenario, EndAttempt(t, t.attempt, results, collected_scores),
                      t.attempt + 1)

\* a task moved to t: the semaphore slot goes back and the task counts as
\* ended when it returned or raised
Settle(i, t) ==
    /\ tasks' = [tasks EXCEPT ![i] = t]
    /\ IF t.pc \in {"done", "raised"}
       THEN /\ finish_order' = Append(finish_order, i)
            /\ semaphore' = IF tasks[i].pc = "pending" THEN semaphore
                             ELSE semaphore + 1
       ELSE /\ finish_order' = finish_order
            /\ semaphore' = IF tasks[i].pc = "pending" THEN semaphore - 1
                             ELSE semaphore

\* a gathered coroutine starts: tasks start in the order gather created them
StartScenario(i) ==
    /\ run.pc = "gathering"
    /\ i \in 1..Len(tasks)
    /\ tasks[i].pc = "pending"
    /\ \A j \in 1..(i - 1) : tasks[j].pc # "pending"
    /\ semaphore > 0
    /\ \E next \in {BeginAttempt(batch[i], tasks[i], 1)} : Settle(i, next)
    /\ collected_scores' = EmptyScores
    /\ UNCHANGED <<batch, attempts, run, configs, evaluator_classes, eval_log, orchVars, httpVars, parseVars, ragVars>>

\* simulate_single_scenario resets the shared accumulator whenever it begins
\* an attempt
ResetScores(next) ==
    collected_scores' = IF next.pc = "agent" /\ next.turn = 1 THEN EmptyScores
                        ELSE collected_scores

\* the agent's answer to the request of the current turn arrives
AgentResponds(i, outcome) ==
    /\ i \in 1..Len(tasks)
    /\ tasks[i].pc = "agent"
    /\ LET t == tasks[i]
           interaction == batch[i].interactions[t.turn]
           response == AsyncRequest(outcome)
       IN  \E next \in {IF RequestFailed(response)
                         THEN AfterTurn(batch[i], t,
                                        AppendFailed(t.results, interaction, outcome))
                         ELSE [t EXCEPT !.pc = "judges", !.response = response]} :
              Settle(i, next) /\ ResetScores(next)
    /\ UNCHANGED <<batch, attempts, run, configs, evaluator_classes, eval_log, orchVars, httpVars, parseVars, ragVars>>

\* both judges of the current turn have answered
JudgesRespond(i, so, si) ==
    /\ i \in 1..Len(tasks)
    /\ tasks[i].pc = "judges"
    /\ LET t == tasks[i]
           interaction == batch[i].interactions[t.turn]
           scripts == [p \in {"openai", "ionos"} |-> IF p = "openai" THEN so ELSE si]
       IN  \E ev \in {EvaluateInteraction(interaction.user_message,
                                           interaction.reference_reply, so, si)} :
           \E next \in {IF ev.raised
                         THEN [t EXCEPT !.pc = "raised",
                                  !.crash = <<[attempt |-> t.attempt, turn |-> t.turn,
                                               scripts |-> scripts]>>]
                         ELSE AfterTurn(batch[i], t,
                                 Append(t.results,
                                    TurnResult(interaction, t.response.text,
                                               ev.results, "200", scripts,
                                               interaction.user_message)))} :
              Settle(i, next) /\ ResetScores(next)
    /\ UNCHANGED <<batch, attempts, run, configs, evaluator_classes, eval_log, orchVars, httpVars, parseVars, ragVars>>

\* the results handed over in the order the tasks ended
GatherAsCompleted(ts, order) == [k \in 1..Len(order) |-> ts[order[k]].result]

\* asyncio.gather: the results in the order of the awaitables passed in
GatherResults(ts, order) == [i \in 1..Len(ts) |-> ts[i].result]

\* the keys of the mapping simulate_single_scenario returns
ScenarioKeys == {"scenario_id", "attempts", "average_scores"}

\* scenarios_results.get("averageScores", {})
GetAverageScores(scenario_result) ==
    IF "averageScores" \in ScenarioKeys THEN scenario_result.average_scores
    ELSE EmptyScores

\* aggregate_scores: per key, the values of the scenarios that have the key
AggregateScores(results) ==
    LET keys == UNION {DOMAIN GetAverageScores(results[i]) : i \in 1..Len(results)}
        having(key) == SelectSeq(results,
                          LAMBDA r : key \in DOMAIN GetAverageScores(r))
    IN  [key \in keys |->
            [k \in 1..Len(having(key)) |-> GetAverageScores(having(key)[k])[key]]]

\* a gather that is done only while a semaphore slot is free
GatherDoneWithFreeSlot(ts) ==
    /\ semaphore > 0
    /\ \A i \in 1..Len(ts) : ts[i].pc = "done"

\* the future of asyncio.gather is done: every awaitable passed in returned
\* (at once when none was passed in)
GatherDone(ts) == \A i \in 1..Len(ts) : ts[i].pc = "done"

\* run_batch_test after simulate_conversation returned: what the sink was
\* handed so far; the block that calls persistence_fn is commented out
PersistResults(persistence_fn, persisted, results) == persisted

\* gather has every result: simulate_conversation aggregates and returns,
\* and run_batch_test returns the same mapping
GatherReturn ==
    /\ run.pc = "gathering"
    /\ GatherDone(tasks)
    /\ LET scenarios == GatherResults(tasks, finish_order)
           results == [scenarios |-> scenarios,
                       average_scores |-> CalculateAverage(AggregateScores(scenarios))]
       IN  run' = [pc |-> "returned", scenarios |-> results.scenarios,
                   average_scores |-> results.average_scores,
                   persistence_fn |-> run.persistence_fn,
                   persisted |-> PersistResults(run.persistence_fn, run.persisted,
                                                results)]
    /\ UNCHANGED <<batch, attempts, tasks, semaphore, finish_order, collected_scores,
                   evalVars, orchVars, httpVars, parseVars, ragVars>>

\* gather without return_exceptions: the first exception of a task is raised
\* in simulate_conversation; the other tasks are not cancelled
GatherRaise ==
    /\ run.pc = "gathering"
    /\ \E i \in 1..Len(tasks) : tasks[i].pc = "raised"
    /\ run' = [pc |-> "raised", scenarios |-> <<>>, average_scores |-> EmptyScores,
               persistence_fn |-> run.persistence_fn, persisted |-> run.persisted]
    /\ UNCHANGED <<batch, attempts, tasks, semaphore, finish_order, collected_scores,
                   evalVars, orchVars, httpVars, parseVars, ragVars>>

\* what the judges' APIs do during a run
SimScripts == {Always(XOk(5)), Always(XOk(2)), Always(XOk(7)), Always(XNet),
               Always(XHttp), Always(XSchema)}

\* the providers the simulator's evaluation service was configured with
SimConfigs == {{"openai", "ionos"}, {"openai"}}

RECURSIVE Requests(_)
Requests(shape) == IF shape = <<>> THEN 0 ELSE shape[1] + Requests(Tail(shape))

\* run_batch_test called on a fresh ConversationSimulator
InitSim ==
    /\ \E shape \in Shapes :
          /\ batch = Batch(shape)
          /\ attempts \in 1..MaxAttempts
          /\ Requests(shape) * attempts <= MaxRequests
    /\ tasks = [i \in 1..Len(batch) |-> NewTask]
    /\ semaphore = Len(batch)
    \* the simulator was constructed with a persistence_fn
    /\ run = [pc |-> "gathering", scenarios |-> <<>>, average_scores |-> EmptyScores,
              persistence_fn |-> TRUE, persisted |-> <<>>]
    /\ finish_order = <<>>
    /\ collected_scores = EmptyScores
    /\ configs \in SimConfigs
    /\ evaluator_classes = {}
    /\ eval_log = <<>>
    \* no orchestrator call in progress
    /\ now = 0
    /\ sessions = <<>>
    /\ rate_limiter = [p \in Projects |-> <<>>]
    /\ session_ttl_minutes = 1
    /\ cleanup_enabled = FALSE
    /\ next_sweep = 0
    /\ next_session_id = 1
    /\ calls = <<>>
    /\ route = [injected |-> 0, responses |-> <<>>]
    /\ llm_output = <<>>
    /\ parsed = [done |-> FALSE]
    /\ rag_page = [paras |-> <<>>, chunk_size |-> 0]
    /\ rag_sessions = {}
    /\ rag_next_id = 1
    /\ rag_calls = <<>>

NextSim ==
    \/ \E i \in 1..MaxConversations : StartScenario(i)
    \/ \E i \in 1..MaxConversations, outcome \in AgentOutcomes :
          AgentResponds(i, outcome)
    \/ \E i \in 1..MaxConversations, so \in SimScripts, si \in SimScripts :
          JudgesRespond(i, so, si)
    \/ GatherReturn
    \/ GatherRaise

SpecSim == InitSim /\ [][NextSim]_vars

\* the event loop resumes simulate_conversation once its gather is done
SpecSimFair == InitSim /\ [][NextSim]_vars /\ WF_vars(GatherReturn)

(***************************************************************************)
(* Properties of the simulator.                                            *)
(***************************************************************************)

\* the interactions lists recorded so far for scenario i: one per finished
\* attempt, and the list of the attempt in progress
FinishedAttempts(i) ==
    {tasks[i].attempt_results[a].interactions : a \in 1..Len(tasks[i].attempt_results)}

RecordedTurns ==
    UNION {{l[k] : k \in 1..Len(l)} :
              l \in UNION {FinishedAttempts(i) \cup {tasks[i].results} :
                              i \in 1..Len(tasks)}}

\* C4: the batch result simulate_conversation returns holds exactly one
\* scenario result per conversation of the batch, in the order of the batch,
\* whatever order the scenario tasks finish in.
C4_OneScenarioResultPerConversation ==
    run.pc = "returned" =>
        /\ Len(run.scenarios) = Len(batch)
        /\ \A i \in 1..Len(batch) :
              /\ run.scenarios[i].scenario_id = batch[i].id
              /\ run.scenarios[i] = tasks[i].result

\* a run returned whose second scenario finished before its first
C4_Witness ==
    /\ run.pc = "returned"
    /\ Len(batch) = 2
    /\ finish_order = <<2, 1>>
    /\ Len(batch[1].interactions) > 0

\* an interactions list holds one result per Interaction, in order
MatchesInteractions(l, scenario) ==
    /\ Len(l) = Len(scenario.interactions)
    /\ \A k \in 1..Len(l) :
          /\ l[k].user_message = scenario.interactions[k].user_message
          /\ l[k].reference_reply = scenario.interactions[k].reference_reply

C6_RequestFailedIffTransportFailure ==
    \A r \in RecordedTurns :
        /\ (r.agent_reply = "Request failed" /\ DOMAIN r.evaluation_results = {})
              <=> r.http \in {"network", "500"}
        /\ r.http \in {"network", "500"} => r.scripts = <<>>

\* C7: one scenario task raising does not keep the other scenarios' results
\* out of the batch result: simulate_conversation still returns, with the
\* result of every scenario that finished.
C7_RaisingTaskLeavesOthers ==
    (run.pc \in {"returned", "raised"} /\ \E i \in 1..Len(tasks) : tasks[i].pc = "raised")
        => /\ run.pc = "returned"
           /\ \A j \in 1..Len(tasks) :
                 tasks[j].pc = "done" => run.scenarios[j] = tasks[j].result

\* what the judge of provider p did under the script of a turn
JudgeOf(p, scripts) == Evaluate(Class("level_core", p), scripts[p])
JudgeFails(p, scripts) == JudgeOf(p, scripts).judge \in {"raised", "marker"}
JudgeSucceeds(p, scripts) == JudgeOf(p, scripts).judge = "valid"

\* one judge fails and every other judge succeeds
OneFailsOthersSucceed(scripts) ==
    \E p \in DOMAIN scripts :
        /\ JudgeFails(p, scripts)
        /\ \A q \in DOMAIN scripts \ {p} : JudgeSucceeds(q, scripts)

\* C8: with both judges configured, when one judge of a turn fails (raises or
\* returns an error marker) and the other succeeds, the other provider's
\* result is what its judge returned, the failing provider still has an
\* entry, and the turn is recorded instead of ending the sub-run.
C8_FailingJudgeLeavesOthers ==
    {"openai", "ionos"} \subseteq configs =>
        /\ \A i \in 1..Len(tasks) :
              tasks[i].crash # <<>> => ~OneFailsOthersSucceed(tasks[i].crash[1].scripts)
        /\ \A r \in RecordedTurns :
              (r.http = "200" /\ OneFailsOthersSucceed(r.scripts)) =>
                 \A p \in DOMAIN r.scripts :
                    /\ p \in DOMAIN r.evaluation_results
                    /\ JudgeSucceeds(p, r.scripts) =>
                          [r.evaluation_results[p] EXCEPT !.key_points = <<>>]
                              = JudgeOf(p, r.scripts).result

\* a finished scenario with a turn whose openai judge raised and whose ionos
\* judge scored 5, and one whose ionos judge returned an error marker
C8_Witness ==
    /\ {"openai", "ionos"} \subseteq configs
    /\ \E i \in 1..Len(tasks) :
          /\ tasks[i].pc = "done"
          /\ \E l \in FinishedAttempts(i) :
                /\ Len(l) = 2
                /\ l[1].http = "200"
                /\ l[2].http = "200"
                /\ l[1].scripts["openai"] = Always(XHttp)
                /\ l[1].scripts["ionos"] = Always(XOk(5))
                /\ l[1].evaluation_results["openai"].error
                /\ l[1].evaluation_results["ionos"].match_level = 5
                /\ l[2].scripts["ionos"] = Always(XNet)
                /\ l[2].scripts["openai"] = Always(XOk(2))
                /\ l[2].evaluation_results["openai"].match_level = 2

\* C18: for every turn whose transport succeeded the evaluation service is
\* invoked exactly once for each provider configured in it and for no other
\* provider, and the turn's evaluation_results has exactly the configured
\* providers as keys.
C18_JudgesAreTheConfigured ==
    /\ \A r \in RecordedTurns :
          r.http = "200" =>
             /\ DOMAIN r.scripts = configs
             /\ DOMAIN r.evaluation_results = configs
    /\ \A i \in 1..Len(tasks) :
          tasks[i].crash # <<>> => DOMAIN tasks[i].crash[1].scripts = configs

\* C19: for every turn whose transport succeeded, the generated text passed
\* to each judge is the agent's reply of that turn as normalized by the
\* response adapter, and that same text is recorded as agent_reply.
C19_JudgedTextIsAdaptedReply ==
    \A r \in RecordedTurns :
        r.http = "200" =>
           /\ r.judged = AdaptAgentResponse(AsyncRequest(r.http).text)
           /\ r.agent_reply = r.judged

\* the match levels provider p gave on the evaluated turns of a list
RECURSIVE MatchLevels(_, _)
MatchLevels(l, p) ==
    IF l = <<>> THEN <<>>
    ELSE IF p \in DOMAIN Head(l).evaluation_results
    THEN <<Head(l).evaluation_results[p].match_level>> \o MatchLevels(Tail(l), p)
    ELSE MatchLevels(Tail(l), p)

\* the arithmetic mean rounded to 3 decimals, in thousandths; 0 for no value
Mean3(values) ==
    IF Len(values) = 0 THEN 0
    ELSE (2 * 1000 * Sum(values) + Len(values)) \div (2 * Len(values))

\* C20: for every attempt and every configured provider p, the attempt's
\* average_scores[p] is the mean, rounded to 3 decimals, of
\* evaluation_results[p].match_level over the attempt's Interactions, and 0
\* when the attempt has no evaluated Interaction.
C20_AttemptAverages ==
    \A i \in 1..Len(tasks) :
       \A a \in 1..Len(tasks[i].attempt_results) :
          \A p \in configs :
             /\ p \in DOMAIN tasks[i].attempt_results[a].average_scores
             /\ tasks[i].attempt_results[a].average_scores[p]
                   = Mean3(MatchLevels(tasks[i].attempt_results[a].interactions, p))

\* the mean rounded to 3 decimals of values given in thousandths
MeanRounded(values) ==
    IF Len(values) = 0 THEN 0
    ELSE (2 * Sum(values) + Len(values)) \div (2 * Len(values))

\* the provider-p average of each attempt of a finished scenario task
AttemptAverages(i, p) ==
    [a \in 1..Len(tasks[i].attempt_results) |->
        Mean3(MatchLevels(tasks[i].attempt_results[a].interactions, p))]

\* C21: for every scenario result and every configured provider p, the
\* scenario's average_scores[p] is the mean of the provider-p averages of all
\* of that scenario's attempts, each attempt contributing once.
C21_ScenarioAverages ==
    \A i \in 1..Len(tasks) :
       tasks[i].pc = "done" =>
          \A p \in configs :
             /\ p \in DOMAIN tasks[i].result.average_scores
             /\ tasks[i].result.average_scores[p] = MeanRounded(AttemptAverages(i, p))

\* C22: the batch result's average_scores[p] is the mean over all scenarios
\* of each scenario's average for provider p; so it exists for a batch that
\* has a scenario, and is m when every judge result of p has match_level m.
C22_BatchAverages ==
    (run.pc = "returned" /\ Len(batch) > 0) =>
       \A p \in configs :
          /\ p \in DOMAIN run.average_scores
          /\ run.average_scores[p]
                = MeanRounded([i \in 1..Len(tasks) |->
                                  MeanRounded(AttemptAverages(i, p))])

\* C23: a batch run on a batch with zero conversations terminates, the
\* semaphore of capacity 0 notwithstanding, and returns scenarios = [] and
\* average_scores = {}.
C23_EmptyBatchReturns ==
    (Len(batch) = 0) ~> (/\ run.pc = "returned"
                         /\ run.scenarios = <<>>
                         /\ run.average_scores = EmptyScores)

\* the run on the empty batch returned, its semaphore having no slot
C23_Witness ==
    /\ Len(batch) = 0
    /\ semaphore = 0
    /\ run.pc = "returned"

\* C24: for every turn whose transport succeeded and every configured
\* provider p, the recorded evaluation_results[p].match_level is an integer
\* in 0..5, whatever integer the judge model emits.
C24_MatchLevelInRange ==
    \A r \in RecordedTurns :
       r.http = "200" =>
          \A p \in configs \cap DOMAIN r.evaluation_results :
             r.evaluation_results[p].match_level \in 0..5

\* the evaluate_response calls that reached a judge
JudgedCalls == {i \in 1..Len(eval_log) : eval_log[i].out.judge # "not_called"}

\* C25: for one evaluate_response call the judge provider's HTTP endpoint is
\* called at most 3 times in total, for every judge implementation, after
\* which the evaluation ends with a result.
C25_AtMostThreeExchanges ==
    \A i \in JudgedCalls :
       /\ eval_log[i].out.used <= MaxAttempt
       /\ ~eval_log[i].out.raised
       /\ ~eval_log[i].out.is_none

\* C26: a judge call is retried if and only if the attempt before failed
\* with a transport-level error: a transport error followed by a successful
\* attempt gives that attempt's score, an exchange completed with a 4xx/5xx
\* status or with an answer is not repeated, and transport errors are
\* retried up to the limit.
C26_RetryOnlyOnTransportError ==
    \A i \in JudgedCalls :
       LET entry == eval_log[i]
       IN  /\ entry.script = FlakyThenOk =>
                /\ ~entry.out.raised
                /\ entry.out.result.match_level = FlakyThenOk.rest.match_level
                /\ entry.out.used = 2
           /\ entry.script = Always(XHttp) => entry.out.used = 1
           /\ entry.script.first.kind \in {"ok", "schema", "text"} =>
                entry.out.used = 1
           /\ entry.script = Always(XNet) => entry.out.used = MaxAttempt

\* C27: when a persistence sink is configured on the simulator, a completed
\* batch run hands the batch result to the sink exactly once, after all
\* scenarios have finished, with the content that is returned to the caller.
C27_ResultPersistedOnce ==
    /\ (run.pc = "returned" /\ run.persistence_fn) =>
          run.persisted = << [scenarios |-> run.scenarios,
                              average_scores |-> run.average_scores] >>
    /\ run.pc = "gathering" => run.persisted = <<>>

\* the step makes task i begin an attempt, where simulate_single_scenario
\* assigns a new accumulator to self.collected_scores
BeginsAttempt(i) ==
    /\ i \in 1..Len(tasks)
    /\ tasks'[i] # tasks[i]
    /\ tasks'[i].pc = "agent"
    /\ tasks'[i].turn = 1

\* task j is inside an attempt, suspended at the agent request or the judges
MidAttempt(j) == tasks[j].pc \in {"agent", "judges"}

\* C28: the collected-scores accumulator of an attempt is private to it:
\* when scenario tasks interleave at their await points, no task replaces
\* the accumulator while another task's attempt is still using it.
C28_AccumulatorPrivate ==
    [][\A i \in 1..Len(tasks) :
          BeginsAttempt(i) =>
             \A j \in 1..Len(tasks) : j # i => ~MidAttempt(j)]_vars

\* where task i stands: the attempts finished are numbered from 1 with the
\* conversation ids batch-1, batch-2, ..; inside an attempt it is the one
\* after the finished ones, and the turns before the current one are recorded
InOrder(i) ==
    LET t == tasks[i]
    IN  /\ Len(t.attempt_results) <= attempts
        /\ \A a \in 1..Len(t.attempt_results) :
              /\ t.attempt_results[a].attempt_id = a
              /\ t.attempt_results[a].conversation_id = ConversationId(a)
        /\ MidAttempt(i) =>
              /\ t.attempt = Len(t.attempt_results) + 1
              /\ Len(t.results) = t.turn - 1
        /\ t.pc = "done" => Len(t.attempt_results) = attempts

\* the step issues an agent request of task i
IssuesRequest(i) ==
    /\ i \in 1..Len(tasks)
    /\ tasks'[i] # tasks[i]
    /\ tasks'[i].pc = "agent"

\* the request issued is the first of the task, or the next Interaction of
\* the attempt, or the first of the next attempt after the last Interaction;
\* the turn before it either failed at transport or had its judges answer
NextInOrder(i) ==
    LET t == tasks[i]
        n == tasks'[i]
        last == Len(batch[i].interactions)
    IN  \/ t.pc = "pending" /\ n.attempt = 1 /\ n.turn = 1
        \/ /\ t.pc \in {"agent", "judges"}
           /\ \/ t.turn < last /\ n.attempt = t.attempt /\ n.turn = t.turn + 1
              \/ t.turn = last /\ n.attempt = t.attempt + 1 /\ n.turn = 1
           /\ t.pc = "agent" =>
                 \/ Len(n.results) = t.turn /\ n.results[t.turn].http # "200"
                 \/ /\ n.results = <<>>
                    /\ n.attempt_results[t.attempt].interactions[t.turn].http # "200"

\* C30: within one scenario task the agent requests are issued one after
\* another in attempt-major list order: the request for Interaction i+1 only
\* after the judge calls of Interaction i have completed, attempt k+1 only
\* after attempt k has finished, the attempts numbered 1..attempts with
\* conversation ids batch-1, batch-2, ...
C30_SequentialInOrder ==
    /\ [](\A i \in 1..Len(tasks) : InOrder(i))
    /\ [][\A i \in 1..Len(tasks) : IssuesRequest(i) => NextInOrder(i)]_vars

\* a task that ran two attempts, each with a judged turn, to its end
C30_Witness ==
    \E i \in 1..Len(tasks) :
        /\ tasks[i].pc = "done"
        /\ Len(tasks[i].attempt_results) = 2
        /\ tasks[i].attempt_results[2].conversation_id = ConversationId(2)
        /\ \A a \in 1..2 :
              /\ Len(tasks[i].attempt_results[a].interactions) = 1
              /\ tasks[i].attempt_results[a].interactions[1].http = "200"

(***************************************************************************)
(* The sweeper, the buckets and the store of one orchestrator.             *)
(***************************************************************************)
Expired(s) == s.expires_at <= now

\* a step of the sweeper's loop body
SweeperPass == cleanup_enabled /\ now >= next_sweep /\ next_sweep' > next_sweep

\* C31: each sweeper pass removes from the store exactly the sessions with
\* expires_at <= now and none with expires_at > now, and a session that has
\* expired is in the store of an instance only while that instance has a
\* sweeper running that will remove it, however the instance was constructed.
C31_SweeperRemovesExpired ==
    /\ [](\A k \in 1..Len(sessions) : Expired(sessions[k]) => cleanup_enabled)
    /\ [][SweeperPass =>
             sessions' = SelectSeq(sessions, LAMBDA s : s.expires_at > now)]_vars

\* a step of a prepare_workflow call for project p: its entry or its resumption
StepOfCall(p) ==
    \E c \in 1..Len(calls') :
        /\ calls'[c].project_id = p
        /\ (c > Len(calls) \/ calls'[c] # calls[c])

\* C32: the rate-limit buckets are independent per project_id: a call for
\* project A changes neither the bucket of another project B nor the outcome
\* of B's next rate-limit check.
C32_BucketsIndependent ==
    [][\A p \in Projects : \A q \in Projects \ {p} :
          StepOfCall(p) =>
             /\ rate_limiter'[q] = rate_limiter[q]
             /\ CheckRateLimit(q)' = CheckRateLimit(q)]_vars

\* two calls filled P's bucket and a call for Q in the same tick was admitted
C32_Witness ==
    /\ Len(calls) = 3
    /\ calls[1].project_id = "P" /\ calls[2].project_id = "P"
    /\ calls[3].project_id = "Q"
    /\ \A c \in 1..3 : calls[c].started = now /\ ~calls[c].limited
    /\ Len(rate_limiter["P"]) = max_requests_per_minute
    /\ ~CheckRateLimit("P").ok
    /\ rate_limiter["Q"] = <<now>>

\* C37: at every moment the store of one orchestrator holds at most one
\* non-expired session per (project_id, workflow_type, seed_hash), also when
\* calls interleave at the verifier's await.
C37_OneLiveSessionPerKey ==
    \A i \in 1..Len(sessions) : \A j \in 1..Len(sessions) :
        ( /\ i # j
          /\ sessions[i].project_id = sessions[j].project_id
          /\ sessions[i].workflow_type = sessions[j].workflow_type
          /\ sessions[i].seed_hash = sessions[j].seed_hash )
        => (Expired(sessions[i]) \/ Expired(sessions[j]))

\* session s has the key of the call record rec
KeyOf(s, rec) ==
    /\ s.project_id = rec.project_id
    /\ s.workflow_type = rec.workflow_type
    /\ s.seed_hash = rec.seed_hash

\* the step in which call c returns a launch
Launches(c) ==
    /\ c \in 1..Len(calls')
    /\ calls'[c].success
    /\ (c > Len(calls) \/ ~calls[c].success)

\* C38: a session with expires_at <= now is never returned by
\* prepare_workflow, also while it is still in the store: a launch returns a
\* session that has not expired, the idempotent branch only a stored one that
\* has not expired; a call whose key has only expired sessions goes through
\* the verifier again and, when it succeeds, returns a newly minted
\* session_id that differs from every session stored before.
C38_ExpiredNeverReturned ==
    [][\A c \in 1..MaxCalls :
          Launches(c) =>
             /\ calls'[c].session_expires > now
             /\ calls'[c].hit =>
                   \E k \in 1..Len(sessions) :
                       /\ sessions[k].session_id = calls'[c].session_id
                       /\ KeyOf(sessions[k], calls'[c])
                       /\ ~Expired(sessions[k])
             /\ (\A k \in 1..Len(sessions) :
                     KeyOf(sessions[k], calls'[c]) => Expired(sessions[k]))
                => /\ ~calls'[c].hit
                   /\ calls'[c].verifier_called
                   /\ calls'[c].verified = "ready"
                   /\ \A k \in 1..Len(sessions) :
                         sessions[k].session_id # calls'[c].session_id]_vars

\* a call entered when the session of its key had expired and was still in
\* the store, and it launched a new session
C38_Witness ==
    \E c \in 1..Len(calls) : \E k \in 1..Len(sessions) :
        /\ KeyOf(sessions[k], calls[c])
        /\ sessions[k].expires_at <= calls[c].started
        /\ calls[c].success
        /\ ~calls[c].hit
        /\ calls[c].verifier_called
        /\ calls[c].session_id # sessions[k].session_id

(***************************************************************************)
(* The limiter on its own: the sequence of _check_rate_limit calls that    *)
(* the prepare_workflow calls of one orchestrator make.                    *)
(***************************************************************************)
MaxChecks == 5

\* prepare_workflow up to the limiter's answer; what follows an admitted
\* request does not touch the limiter and is left out
CheckRateLimitCall(project_id) ==
    /\ Len(calls) < MaxChecks
    /\ LET rl == CheckRateLimit(project_id)
       IN /\ rate_limiter' = [rate_limiter EXCEPT ![project_id] = rl.bucket]
          /\ calls' = Append(calls, [project_id |-> project_id, started |-> now,
                                     limited |-> ~rl.ok])
    /\ UNCHANGED <<now, sessions, session_ttl_minutes, cleanup_enabled, next_sweep,
                   next_session_id>>
    /\ UNCHANGED <<evalVars, simVars, httpVars, parseVars, ragVars>>

InitLimiter ==
    /\ now = 0
    /\ sessions = <<>>
    /\ rate_limiter = [p \in Projects |-> <<>>]
    /\ session_ttl_minutes \in SessionTtlChoices
    /\ cleanup_enabled \in BOOLEAN
    /\ next_sweep = 0
    /\ next_session_id = 1
    /\ calls = <<>>
    /\ configs = {}
    /\ evaluator_classes = {}
    /\ eval_log = <<>>
    /\ batch = <<>>
    /\ attempts = 0
    /\ tasks = <<>>
    /\ semaphore = 0
    /\ run = [pc |-> "idle"]
    /\ finish_order = <<>>
    /\ collected_scores = <<>>
    /\ route = [injected |-> 0, responses |-> <<>>]
    /\ llm_output = <<>>
    /\ parsed = [done |-> FALSE]
    /\ rag_page = [paras |-> <<>>, chunk_size |-> 0]
    /\ rag_sessions = {}
    /\ rag_next_id = 1
    /\ rag_calls = <<>>

NextLimiter ==
    \/ \E p \in Projects : CheckRateLimitCall(p)
    \/ CleanupExpiredSessions
    \/ Tick

SpecLimiter == InitLimiter /\ [][NextLimiter]_vars

\* the requests of project p admitted less than a minute before the clock's now
AdmittedInWindow(p) ==
    {i \in 1..Len(calls) : /\ calls[i].project_id = p
                           /\ ~calls[i].limited
                           /\ calls[i].started > now - MinuteTicks}

\* C39: a call rejected with RATE_LIMITED adds no timestamp to the bucket, so
\* the bucket counts admitted requests only and a project that keeps calling
\* while limited is admitted again as soon as fewer than
\* max_requests_per_minute of its admitted calls are less than 60 s old.
C39_RejectedNotCounted ==
    [][\A p \in Projects :
          (Len(calls') = Len(calls) + 1 /\ calls'[Len(calls')].project_id = p) =>
             /\ calls'[Len(calls')].limited
                   <=> (Cardinality(AdmittedInWindow(p)) >= max_requests_per_minute)
             /\ calls'[Len(calls')].limited
                   => rate_limiter'[p] = CleanOld(rate_limiter[p], now)
             /\ Len(rate_limiter'[p]) =
                   Cardinality({i \in 1..Len(calls') :
                                   /\ calls'[i].project_id = p
                                   /\ ~calls'[i].limited
                                   /\ calls'[i].started > now - MinuteTicks})]_vars

\* a project filled its bucket, was rejected, and was admitted again when its
\* admitted calls were a minute old
C39_Witness ==
    \E j \in 1..Len(calls) : \E k \in 1..Len(calls) :
        /\ j < k
        /\ calls[j].project_id = calls[k].project_id
        /\ calls[j].limited
        /\ ~calls[k].limited
        /\ calls[k].started = calls[j].started + MinuteTicks
        /\ Cardinality({i \in 1..j : /\ calls[i].project_id = calls[j].project_id
                                     /\ ~calls[i].limited
                                     /\ calls[i].started = calls[j].started})
              = max_requests_per_minute

\* the response of a returned call is a launch: session_id, launch_token and
\* redirect_path present, verification absent
LaunchShape(r) ==
    /\ r.success
    /\ r.session_id # 0
    /\ r.launch_token # NoToken
    /\ r.redirect_path # NoPath
    /\ ~r.has_verification

\* the response of a returned call is a refusal: verification present with
\* ready false and at least one code, no session_id and no launch_token
RefusalShape(r) ==
    /\ ~r.success
    /\ r.has_verification
    /\ ~r.ready
    /\ r.codes # <<>>
    /\ r.session_id = 0
    /\ r.launch_token = NoToken

\* C40: every LaunchResponse has one of two shapes: success true with
\* session_id, launch_token and redirect_path present and verification
\* absent, the session_id being that of a session in the store when the call
\* returns; or success false with verification present, ready false and a
\* non-empty code list, and session_id and launch_token absent.
C40_TwoShapes ==
    /\ [](\A c \in 1..Len(calls) :
             calls[c].pc # "verifying" =>
                /\ calls[c].pc = "returned"
                /\ (LaunchShape(calls[c]) \/ RefusalShape(calls[c])))
    /\ [][\A c \in 1..MaxCalls :
             Launches(c) =>
                \E k \in 1..Len(sessions') :
                    sessions'[k].session_id = calls'[c].session_id]_vars

\* a launch of a new session, a launch of a stored one, and a refusal
C40_Witness ==
    /\ \E c \in 1..Len(calls) : LaunchShape(calls[c]) /\ calls[c].hit
    /\ \E c \in 1..Len(calls) : LaunchShape(calls[c]) /\ ~calls[c].hit
    /\ \E c \in 1..Len(calls) : calls[c].pc = "returned" /\ RefusalShape(calls[c])

(***************************************************************************)
(* evaluate_response of the level_core service with the texts a caller     *)
(* can pass.                                                               *)
(***************************************************************************)
MaxTextEvals == 1

OutputTexts == {Str("out"), Str(""), PyNone, PyDict}
ReferenceTexts == {Str("ref"), PyNone, PyDict}

\* one evaluate_response call on the level_core service, start to end
EvaluateResponseTexts(provider, script, output_text, reference_text) ==
    /\ Len(eval_log) < MaxTextEvals
    /\ eval_log' = Append(eval_log,
          [service |-> "level_core", provider |-> provider, script |-> script,
           configured |-> provider \in configs,
           registered |-> provider \in CoreClasses,
           output_text |-> output_text, reference_text |-> reference_text,
           out |-> EvaluateResponse(provider, output_text, reference_text, script)])
    /\ UNCHANGED <<configs, evaluator_classes, orchVars, simVars, httpVars, parseVars, ragVars>>

InitTexts ==
    /\ configs \in SUBSET Providers
    /\ evaluator_classes = {}
    /\ eval_log = <<>>
    /\ now = 0
    /\ sessions = <<>>
    /\ rate_limiter = [p \in Projects |-> <<>>]
    /\ session_ttl_minutes = 1
    /\ cleanup_enabled = FALSE
    /\ next_sweep = 0
    /\ next_session_id = 1
    /\ calls = <<>>
    /\ batch = <<>>
    /\ attempts = 0
    /\ tasks = <<>>
    /\ semaphore = 0
    /\ run = [pc |-> "idle"]
    /\ finish_order = <<>>
    /\ collected_scores = <<>>
    /\ route = [injected |-> 0, responses |-> <<>>]
    /\ llm_output = <<>>
    /\ parsed = [done |-> FALSE]
    /\ rag_page = [paras |-> <<>>, chunk_size |-> 0]
    /\ rag_sessions = {}
    /\ rag_next_id = 1
    /\ rag_calls = <<>>

NextTexts ==
    \/ \E p \in Providers : SetConfig(p)
    \/ \E p \in Providers, sc \in Scripts, o \in OutputTexts, r \in ReferenceTexts :
          EvaluateResponseTexts(p, sc, o, r)

SpecTexts == InitTexts /\ [][NextTexts]_vars

\* C33: when key-point extraction raises during post-processing, as for a
\* reference_text or output_text that is no string, evaluate_response still
\* returns the judge's EvaluationResult with match_level and justification
\* intact: whenever the guarded judge call yielded a result, the call returns
\* a result with that match_level and justification.
C33_KeyPointFailureKeepsResult ==
    \A i \in 1..Len(eval_log) :
        LET entry == eval_log[i]
            e == EvaluateGuarded(Class("level_core", entry.provider), entry.script)
        IN (/\ entry.service = "level_core"
            /\ entry.configured /\ entry.registered
            /\ ~e.raised /\ ~e.is_none) =>
              /\ ~entry.out.raised
              /\ entry.out.result.match_level = e.result.match_level
              /\ entry.out.result.justification = e.result.justification

(***************************************************************************)
(* The RAG simulator (level_core/simluators/rag_simulator.py) on the store *)
(* rag_routes.py gives it.                                                 *)
(***************************************************************************)
\* calls on one RAGSimulator
MaxRagCalls == 4
\* paragraphs of the scraped page
MaxParas == 3
\* len(para) of the paragraphs a page can have; get_text().strip() leaves none empty
ParaLens == {1, 3, 6}
\* values of RAGInitRequest.chunk_size
ChunkSizes == {5, 8}
\* len(sep) for sep = "\n\n"
SepLen == 2

\* len(sep.join(current)) for paragraphs given by their lengths
JoinLen(current) == Sum(current) + SepLen * (Len(current) - 1)

\* ChunkInfo(index=len(chunks), content=sep.join(current), ..)
ChunkInfo(chunks, current) ==
    [index |-> Len(chunks), content |-> current, chars |-> JoinLen(current)]

\* the paragraph loop of _scrape_page and the flush after it
RECURSIVE ChunkParas(_, _, _, _, _)
ChunkParas(paras, chunk_size, chunks, current, current_len) ==
    IF paras = <<>>
    THEN IF current_len > 0 THEN Append(chunks, ChunkInfo(chunks, current)) ELSE chunks
    ELSE LET para == Head(paras)
             projected == current_len + SepLen + para
         IN  IF current_len = 0
             THEN ChunkParas(Tail(paras), chunk_size, chunks, <<para>>, para)
             ELSE IF projected > chunk_size
             THEN ChunkParas(Tail(paras), chunk_size,
                             Append(chunks, ChunkInfo(chunks, current)), <<para>>, para)
             ELSE ChunkParas(Tail(paras), chunk_size, chunks,
                             Append(current, para), projected)

\* _scrape_page on a page that was fetched
ScrapePage(paras, chunk_size) == ChunkParas(paras, chunk_size, <<>>, <<>>, 0)

\* session_id in self.sessions
InStore(sid) == \E s \in rag_sessions : s.id = sid
Session(sid) == CHOOSE s \in rag_sessions : s.id = sid

\* the dict initialize_rag_and_scrape stores
NewRagSession(sid, chunks, chunk_size) ==
    [id |-> sid, has_init |-> TRUE, chunks |-> chunks, chunk_size |-> chunk_size,
     expected_answer |-> FALSE, chatbot_answer |-> FALSE]

\* the dict defaultdict(dict) creates for a key it does not hold
DefaultSession(sid) ==
    [id |-> sid, has_init |-> FALSE, chunks |-> <<>>, chunk_size |-> 0,
     expected_answer |-> FALSE, chatbot_answer |-> FALSE]

\* self.sessions[sid]: the entry, created when the key is missing
GetItem(sid) == IF InStore(sid) THEN Session(sid) ELSE DefaultSession(sid)

\* self.sessions[sid][key] = value
SetItem(sid, entry) == {s \in rag_sessions : s.id # sid} \cup {entry}

RagCall(op, sid, pc, error, found) ==
    [op |-> op, session_id |-> sid, pc |-> pc, error |-> error, found |-> found]

\* the session ids a client can send: one no initialize returned (0) and
\* those minted so far
RequestIds == 0..(rag_next_id - 1)

\* initialize_rag_and_scrape: POST /init, scrape, store, return
InitializeRagAndScrape(init_outcome, scrape_outcome) ==
    /\ Len(rag_calls) < MaxRagCalls
    /\ rag_next_id' = rag_next_id + 1
    /\ IF init_outcome # "200"
       THEN /\ rag_calls' = Append(rag_calls,
                   RagCall("initialize", rag_next_id, "raised", "init_failed", FALSE))
            /\ UNCHANGED rag_sessions
       ELSE IF scrape_outcome # "200"
       THEN /\ rag_calls' = Append(rag_calls,
                   RagCall("initialize", rag_next_id, "raised", "scrape_failed", FALSE))
            /\ UNCHANGED rag_sessions
       ELSE /\ rag_sessions' = SetItem(rag_next_id,
                   NewRagSession(rag_next_id,
                                 ScrapePage(rag_page.paras, rag_page.chunk_size),
                                 rag_page.chunk_size))
            /\ rag_calls' = Append(rag_calls,
                   RagCall("initialize", rag_next_id, "returned", "", TRUE))
    /\ UNCHANGED rag_page
    /\ UNCHANGED <<orchVars, evalVars, simVars, httpVars, parseVars>>

\* generate_expected_answer up to the await of the generation service
GenerateExpectedAnswer(sid) ==
    /\ Len(rag_calls) < MaxRagCalls
    /\ rag_calls' = Append(rag_calls,
          IF ~InStore(sid)
          THEN RagCall("generate_expected", sid, "raised", "not_found", FALSE)
          ELSE IF ~Session(sid).has_init
          THEN RagCall("generate_expected", sid, "raised", "KeyError", TRUE)
          ELSE RagCall("generate_expected", sid, "generating", "", TRUE))
    /\ UNCHANGED <<rag_page, rag_sessions, rag_next_id>>
    /\ UNCHANGED <<orchVars, evalVars, simVars, httpVars, parseVars>>

\* generate_expected_answer from the generation service's answer to the return
GenerateExpectedResume(c, outcome) ==
    /\ c \in 1..Len(rag_calls)
    /\ rag_calls[c].pc = "generating"
    /\ IF outcome # "answer"
       THEN /\ rag_calls' = [rag_calls EXCEPT ![c].pc = "raised",
                                              ![c].error = "generation_failed"]
            /\ UNCHANGED rag_sessions
       ELSE /\ rag_sessions' = SetItem(rag_calls[c].session_id,
                   [GetItem(rag_calls[c].session_id) EXCEPT !.expected_answer = TRUE])
            /\ rag_calls' = [rag_calls EXCEPT ![c].pc = "returned"]
    /\ UNCHANGED <<rag_page, rag_next_id>>
    /\ UNCHANGED <<orchVars, evalVars, simVars, httpVars, parseVars>>

\* evaluate_rag_retrieval up to the await of the chatbot
EvaluateRagRetrieval(sid) ==
    /\ Len(rag_calls) < MaxRagCalls
    /\ rag_calls' = Append(rag_calls,
          IF ~InStore(sid)
          THEN RagCall("evaluate", sid, "raised", "not_found", FALSE)
          ELSE IF ~Session(sid).has_init
          THEN RagCall("evaluate", sid, "raised", "KeyError", TRUE)
          ELSE RagCall("evaluate", sid, "querying", "", TRUE))
    /\ UNCHANGED <<rag_page, rag_sessions, rag_next_id>>
    /\ UNCHANGED <<orchVars, evalVars, simVars, httpVars, parseVars>>

\* evaluate_rag_retrieval from the chatbot's answer to the return
EvaluateResume(c, outcome) ==
    /\ c \in 1..Len(rag_calls)
    /\ rag_calls[c].pc = "querying"
    /\ IF outcome # "200"
       THEN /\ rag_calls' = [rag_calls EXCEPT ![c].pc = "raised",
                                              ![c].error = "chatbot_failed"]
            /\ UNCHANGED rag_sessions
       ELSE /\ rag_sessions' = SetItem(rag_calls[c].session_id,
                   [GetItem(rag_calls[c].session_id) EXCEPT !.chatbot_answer = TRUE])
            /\ rag_calls' = [rag_calls EXCEPT ![c].pc = "returned"]
    /\ UNCHANGED <<rag_page, rag_next_id>>
    /\ UNCHANGED <<orchVars, evalVars, simVars, httpVars, parseVars>>

\* cleanup_session
CleanupSession(sid) ==
    /\ Len(rag_calls) < MaxRagCalls
    /\ rag_sessions' = {s \in rag_sessions : s.id # sid}
    /\ rag_calls' = Append(rag_calls,
          RagCall("cleanup_session", sid, "returned", "", InStore(sid)))
    /\ UNCHANGED <<rag_page, rag_next_id>>
    /\ UNCHANGED <<orchVars, evalVars, simVars, httpVars, parseVars>>

RECURSIVE SeqsUpTo(_, _)
SeqsUpTo(S, n) ==
    IF n = 0 THEN {<<>>}
    ELSE SeqsUpTo(S, n - 1) \cup
         {Append(q, x) : q \in {r \in SeqsUpTo(S, n - 1) : Len(r) = n - 1}, x \in S}

\* the simulator get_rag_simulator builds, and the page its requests name
InitRag ==
    /\ rag_page \in [paras : SeqsUpTo(ParaLens, MaxParas), chunk_size : ChunkSizes]
    /\ rag_sessions = {}
    /\ rag_next_id = 1
    /\ rag_calls = <<>>
    /\ llm_output = <<>>
    /\ parsed = [done |-> FALSE]
    /\ now = 0
    /\ sessions = <<>>
    /\ rate_limiter = [p \in Projects |-> <<>>]
    /\ session_ttl_minutes = 1
    /\ cleanup_enabled = FALSE
    /\ next_sweep = 0
    /\ next_session_id = 1
    /\ calls = <<>>
    /\ configs = {}
    /\ evaluator_classes = {}
    /\ eval_log = <<>>
    /\ batch = <<>>
    /\ attempts = 0
    /\ tasks = <<>>
    /\ semaphore = 0
    /\ run = [pc |-> "idle"]
    /\ finish_order = <<>>
    /\ collected_scores = <<>>
    /\ route = [injected |-> 0, responses |-> <<>>]

NextRag ==
    \/ \E i \in {"200", "fail"}, o \in {"200", "fail"} : InitializeRagAndScrape(i, o)
    \/ \E sid \in RequestIds : GenerateExpectedAnswer(sid)
    \/ \E c \in 1..MaxRagCalls, o \in {"answer", "fail"} : GenerateExpectedResume(c, o)
    \/ \E sid \in RequestIds : EvaluateRagRetrieval(sid)
    \/ \E c \in 1..MaxRagCalls, o \in {"200", "fail"} : EvaluateResume(c, o)
    \/ \E sid \in RequestIds : CleanupSession(sid)

SpecRag == InitRag /\ [][NextRag]_vars

\* C35: for every sequence of scraped paragraphs and every chunk_size, the
\* chunks recorded in the session by initialize carry the indices 0..n-1 in
\* the order they were emitted and the content of every chunk is at most
\* chunk_size characters long, also when a single paragraph is longer than
\* chunk_size.
C35_ChunksBounded ==
    \A s \in rag_sessions :
        s.has_init =>
           \A k \in 1..Len(s.chunks) :
              /\ s.chunks[k].index = k - 1
              /\ s.chunks[k].chars <= s.chunk_size

\* call j names a session that no initialize returned or that an earlier
\* cleanup_session removed
Unknown(j) ==
    \/ rag_calls[j].session_id = 0
    \/ \E i \in 1..(j - 1) :
          /\ rag_calls[i].op = "cleanup_session"
          /\ rag_calls[i].session_id = rag_calls[j].session_id
          /\ rag_calls[i].found

\* C36: generate_expected and evaluate called with a session_id that
\* initialize never returned or that cleanup_session removed fail with
\* session-not-found and leave the store as it was, creating no entry; a
\* second cleanup_session of the same id reports not found.
C36_UnknownSessionRejected ==
    /\ [](\A j \in 1..Len(rag_calls) :
             (Unknown(j) /\ rag_calls[j].op # "initialize") =>
                IF rag_calls[j].op = "cleanup_session"
                THEN ~rag_calls[j].found
                ELSE rag_calls[j].pc = "raised" /\ rag_calls[j].error = "not_found")
    /\ [][(Len(rag_calls') = Len(rag_calls) + 1
              /\ rag_calls'[Len(rag_calls')].op # "initialize"
              /\ ~InStore(rag_calls'[Len(rag_calls')].session_id))
          => rag_sessions' = rag_sessions]_vars

(***************************************************************************)
(* BaseEvaluator._parse_json_output (level-core/evaluators/base.py) on     *)
(* outputs made of the pieces "{", "}", a member and a word of prose.      *)
(***************************************************************************)
\* pieces of an output
MaxOutputLen == 5
\* "{" and "}" are the braces, "kv" the text "match_level": 4, "t" a word
JsonTokens == {"{", "}", "kv", "t"}

ErrorDict == [kind |-> "error", members |-> <<"Invalid JSON output">>]

\* json.loads on such a text: an object with no member or with the one
\* member parses, every other text raises JSONDecodeError
JsonLoadsOutput(text) ==
    IF text = <<"{", "}">> THEN [raised |-> FALSE, obj |-> [kind |-> "dict", members |-> <<>>]]
    ELSE IF text = <<"{", "kv", "}">>
    THEN [raised |-> FALSE, obj |-> [kind |-> "dict", members |-> <<"kv">>]]
    ELSE [raised |-> TRUE, obj |-> ErrorDict]

\* re.search(r"(\{.*\})", output, re.DOTALL): greedy, from the first "{" to
\* the last "}" of the output
ReSearch(output) ==
    LET opens == {i \in 1..Len(output) : output[i] = "{"}
        closes == {i \in 1..Len(output) : output[i] = "}"}
        first == CHOOSE i \in opens : \A k \in opens : i <= k
        last == CHOOSE i \in closes : \A k \in closes : i >= k
    IN IF opens = {} \/ closes = {} THEN [found |-> FALSE, group |-> <<>>]
       ELSE IF last < first THEN [found |-> FALSE, group |-> <<>>]
       ELSE [found |-> TRUE, group |-> SubSeq(output, first, last)]

\* _parse_json_output
ParseJsonOutput(output) ==
    IF ~JsonLoadsOutput(output).raised THEN JsonLoadsOutput(output).obj
    ELSE IF /\ ReSearch(output).found
            /\ ~JsonLoadsOutput(ReSearch(output).group).raised
    THEN JsonLoadsOutput(ReSearch(output).group).obj
    ELSE ErrorDict

\* one call of _parse_json_output on the output the judge sent
ParseOutput ==
    /\ ~parsed.done
    /\ parsed' = [done |-> TRUE, result |-> ParseJsonOutput(llm_output)]
    /\ UNCHANGED llm_output
    /\ UNCHANGED <<orchVars, evalVars, simVars, httpVars, ragVars>>

InitParse ==
    /\ llm_output \in SeqsUpTo(JsonTokens, MaxOutputLen)
    /\ parsed = [done |-> FALSE]
    /\ rag_page = [paras |-> <<>>, chunk_size |-> 0]
    /\ rag_sessions = {}
    /\ rag_next_id = 1
    /\ rag_calls = <<>>
    /\ now = 0
    /\ sessions = <<>>
    /\ rate_limiter = [p \in Projects |-> <<>>]
    /\ session_ttl_minutes = 1
    /\ cleanup_enabled = FALSE
    /\ next_sweep = 0
    /\ next_session_id = 1
    /\ calls = <<>>
    /\ configs = {}
    /\ evaluator_classes = {}
    /\ eval_log = <<>>
    /\ batch = <<>>
    /\ attempts = 0
    /\ tasks = <<>>
    /\ semaphore = 0
    /\ run = [pc |-> "idle"]
    /\ finish_order = <<>>
    /\ collected_scores = <<>>
    /\ route = [injected |-> 0, responses |-> <<>>]

NextParse == ParseOutput

SpecParse == InitParse /\ [][NextParse]_vars

\* the substrings of the output that parse as a JSON object
ObjectsIn(output) ==
    {ij \in (1..Len(output)) \X (1..Len(output)) :
        ij[1] <= ij[2] /\ ~JsonLoadsOutput(SubSeq(output, ij[1], ij[2])).raised}

\* C34: for every output that is not valid JSON but contains exactly one
\* substring that parses as a JSON object, _parse_json_output returns the
\* parse of that substring, also when the output has other braces before or
\* after it; when nothing is recoverable the result is
\* {"error": "Invalid JSON output"}.
C34_RecoversTheObject ==
    (parsed.done /\ JsonLoadsOutput(llm_output).raised) =>
       /\ \A ij \in ObjectsIn(llm_output) :
             ObjectsIn(llm_output) = {ij} =>
                parsed.result = JsonLoadsOutput(SubSeq(llm_output, ij[1], ij[2])).obj
       /\ ObjectsIn(llm_output) = {} => parsed.result = ErrorDict
====
